---------------------------- MODULE Spec2Model ----------------------------
(***************************************************************************)
(* Resolution-and-review pipeline of Reviewero:                            *)
(*   - geminiService   (extractJsonArray, generateReview)                  *)
(*   - metadataService (handleApiResponse, getMetadata, getMovieDetails,   *)
(*                      searchByTitle, getSeriesDetails)                   *)
(*   - StremioHandler  (createErrorStream, handleRequest)                  *)
(*   - TestGround      (handleSubmit, handleSelectResult, ...)             *)
(* JavaScript strings are TLA+ strings, read character by character with   *)
(* Len / SubSeq / \o.  A service function is an operator that returns the  *)
(* function's outcome together with the trace of what it did (log entries  *)
(* and external calls, in order).                                          *)
(***************************************************************************)
EXTENDS Integers, Sequences, FiniteSets, TLC

VARIABLES
    \* ---- geminiService.generateReview, called on its own
    geminiApiKey,     \* the geminiApiKey argument
    aiResponse,       \* what ai.models.generateContent does for this call
    genResult,        \* outcome of generateReview, Null before the call
    extracted,        \* outcomes of extractJsonArray on the text of the response as
                      \* it is and wrapped in other text, Null before the call
    \* ---- metadataService, called on its own
    metaCall,         \* the call made: function, params and the catalog's answers
    metaResult,       \* its outcome, Null before the call
    \* ---- useApiKeys
    storedKeys,       \* localStorage item of API_KEYS_STORAGE_KEY
    keys,
    isReady,
    \* ---- StremioHandler
    pathname,
    response,         \* useState<object | null>
    stPc,             \* position of handleRequest: "idle", "awaitMetadata",
                      \* "awaitReview", "done"
    stRun,            \* locals of the handleRequest run past the pattern match
    effectPending,    \* the effect [pathname, isReady, areKeysSetup, keys] is due
    stTrace,          \* trace of the handleRequest run
    stFault,          \* a rejection escaped handleRequest
    \* ---- TestGround
    query,
    type,
    isLoading,
    error,
    review,
    searchResults,
    selectedSeries,
    selectedSeason,
    selectedEpisode,
    tgFlow,           \* the handler in flight (after its synchronous prefix)
    tgTrace,          \* trace of the flow in flight / last finished
    tgFault,          \* a rejection escaped a TestGround handler
    \* ---- ConfigurePage
    tmdbKey,
    tvdbKey,
    geminiKey,
    testResults,      \* per field "valid", "invalid" or "undefined"
    isSavingAndTesting,
    showSuccess,
    cfgRun,           \* the handleSaveAndTest in flight: the field values of the
                      \* render in which it was started, Null when none
    alerted,          \* text of the last alert() of handleFileChange, Null if none
    testedKeys,       \* history: per field the value its indicator was computed for
    cfgOps,           \* history: number of edits, imports and submits so far
    \* ---- loggingService
    logs,             \* LoggingService.logs
    logged,           \* history: every entry logged since the last clearLogs
    logCount          \* history: number of entries logged so far

genVars  == <<geminiApiKey, aiResponse, genResult, extracted>>
metaVars == <<metaCall, metaResult>>
keyVars  == <<storedKeys, keys, isReady>>
stVars   == <<pathname, response, stPc, stRun, effectPending, stTrace, stFault>>
tgVars   == <<query, type, isLoading, error, review, searchResults, selectedSeries,
              selectedSeason, selectedEpisode, tgFlow, tgTrace, tgFault>>
cfgVars  == <<tmdbKey, tvdbKey, geminiKey, testResults, isSavingAndTesting, showSuccess,
              cfgRun, alerted, testedKeys, cfgOps>>
logVars  == <<logs, logged, logCount>>
vars     == <<genVars, metaVars, keyVars, stVars, tgVars, cfgVars, logVars>>

\* null / undefined, and a present value (a string or an array is wrapped so that
\* it can be compared with Null)
Null == [null |-> TRUE]
Some(x) == [v |-> x]

(***************************************************************************)
(* Bounds of the model.                                                    *)
(***************************************************************************)
\* longest model text enumerated character by character
MaxTextLen == 4
\* most results in a catalog search response
MaxResults == 2

\* the number of edits, imports and submits in one session of ConfigurePage
MaxCfgOps == 3

\* the number of entries logged in one session of the logging sink
MaxLogCalls == 203

(***************************************************************************)
(* JavaScript string primitives.                                           *)
(***************************************************************************)
Ch(s, i) == SubSeq(s, i, i)

Min(a, b) == IF a < b THEN a ELSE b

\* String.prototype.substring(start, end) with 0-based start, exclusive end
Substring(s, start, end) == SubSeq(s, start + 1, end)

\* needle occurs in s at 1-based position i
OccursAt(s, needle, i) ==
    /\ i >= 1
    /\ i + Len(needle) - 1 <= Len(s)
    /\ SubSeq(s, i, i + Len(needle) - 1) = needle

\* String.prototype.includes
Includes(s, needle) == \E i \in 1..(Len(s) + 1) : OccursAt(s, needle, i)

\* String.prototype.startsWith
StartsWith(s, prefix) == OccursAt(s, prefix, 1)

\* String.prototype.indexOf: 0-based index of the first occurrence, -1 if none
IndexOf(s, needle) ==
    IF Includes(s, needle)
    THEN (CHOOSE i \in 1..(Len(s) + 1) :
            OccursAt(s, needle, i) /\ \A j \in 1..(i - 1) : ~OccursAt(s, needle, j)) - 1
    ELSE -1

\* String.prototype.lastIndexOf: 0-based index of the last occurrence, -1 if none
LastIndexOf(s, needle) ==
    IF Includes(s, needle)
    THEN (CHOOSE i \in 1..(Len(s) + 1) :
            OccursAt(s, needle, i)
            /\ \A j \in (i + 1)..(Len(s) + 1) : ~OccursAt(s, needle, j)) - 1
    ELSE -1

WhiteSpace == {" ", "\n", "\t", "\r"}

RECURSIVE TrimStart(_)
TrimStart(s) ==
    IF Len(s) > 0 /\ Ch(s, 1) \in WhiteSpace THEN TrimStart(SubSeq(s, 2, Len(s))) ELSE s

RECURSIVE TrimEnd(_)
TrimEnd(s) ==
    IF Len(s) > 0 /\ Ch(s, Len(s)) \in WhiteSpace
    THEN TrimEnd(SubSeq(s, 1, Len(s) - 1))
    ELSE s

\* String.prototype.trim
Trim(s) == TrimEnd(TrimStart(s))

UpperCase == "ABCDEFGHIJKLMNOPQRSTUVWXYZ"
LowerCase == "abcdefghijklmnopqrstuvwxyz"

LowerChar(c) ==
    IF \E i \in 1..26 : Ch(UpperCase, i) = c
    THEN Ch(LowerCase, CHOOSE i \in 1..26 : Ch(UpperCase, i) = c)
    ELSE c

RECURSIVE ToLowerCase(_)
\* String.prototype.toLowerCase
ToLowerCase(s) ==
    IF Len(s) = 0 THEN s
    ELSE LowerChar(Ch(s, 1)) \o ToLowerCase(SubSeq(s, 2, Len(s)))

RECURSIVE Join(_, _)
\* Array.prototype.join on an array of strings
Join(arr, sep) ==
    IF Len(arr) = 0 THEN ""
    ELSE IF Len(arr) = 1 THEN arr[1]
    ELSE arr[1] \o sep \o Join(Tail(arr), sep)


(***************************************************************************)
(* types.ts: the error classes.  isApiError is `instanceof ApiError`.      *)
(***************************************************************************)
ApiError(message) ==
    [name |-> "ApiError", message |-> message, isApiError |-> TRUE]

InvalidApiKeyError(serviceName) ==
    [name |-> "InvalidApiKeyError",
     message |-> "Invalid API key for " \o serviceName
                 \o ". Please check it in the Configuration page.",
     isApiError |-> TRUE]

NotFoundError(message) ==
    [name |-> "NotFoundError", message |-> message, isApiError |-> TRUE]

RateLimitError(serviceName) ==
    [name |-> "RateLimitError",
     message |-> "Rate limit exceeded for " \o serviceName \o ". Please try again later.",
     isApiError |-> TRUE]

GeminiSafetyError(message) ==
    [name |-> "GeminiSafetyError", message |-> message, isApiError |-> TRUE]

\* a fault of the runtime or of a library: an Error that is no ApiError
JsError(name, message) ==
    [name |-> name, message |-> message, isApiError |-> FALSE]

\* Error.prototype.toString
ErrorToString(e) ==
    IF e.message = "" THEN e.name ELSE e.name \o ": " \o e.message

\* the kind of the error taxonomy an error instance stands for
KindOf(e) ==
    IF ~e.isApiError THEN "Unclassified"
    ELSE CASE e.name = "InvalidApiKeyError" -> "InvalidCredential"
           [] e.name = "NotFoundError"      -> "NotFound"
           [] e.name = "RateLimitError"     -> "RateLimited"
           [] e.name = "GeminiSafetyError"  -> "ContentBlocked"
           [] OTHER                         -> "Generic"

(***************************************************************************)
(* Trace of a service call: log entries (loggingService.info / debug /     *)
(* warn / error, by the fixed part of the message) and external calls.     *)
(***************************************************************************)
LogEv(level, text) == [ev |-> "log", level |-> level, text |-> text]
CallEv(service, text) == [ev |-> "call", level |-> service, text |-> text]

\* outcome of a call: a returned value or a thrown error, with the trace
Returned(value, trace) == [ok |-> TRUE, value |-> value, trace |-> trace]
Thrown(err, trace) == [ok |-> FALSE, error |-> err, trace |-> trace]

(***************************************************************************)
(* JSON.parse, for the texts of the model: arrays, strings (with the       *)
(* escapes \" \\ \/ \n) and unsigned integers, with insignificant white    *)
(* space.  A parsed value is [t |-> "str", s], [t |-> "num", s] or         *)
(* [t |-> "arr", items].  A parse result is [ok, val, next].               *)
(***************************************************************************)
Digits == {"0", "1", "2", "3", "4", "5", "6", "7", "8", "9"}

ParseFail == [ok |-> FALSE]
ParseOk(val, next) == [ok |-> TRUE, val |-> val, next |-> next]

RECURSIVE SkipWs(_, _)
SkipWs(s, i) ==
    IF i <= Len(s) /\ Ch(s, i) \in WhiteSpace THEN SkipWs(s, i + 1) ELSE i

RECURSIVE ParseStringBody(_, _, _)
\* s[i..] is the rest of a string literal after its opening quote
ParseStringBody(s, i, acc) ==
    IF i > Len(s) THEN ParseFail
    ELSE LET c == Ch(s, i) IN
         IF c = "\"" THEN ParseOk([t |-> "str", s |-> acc], i + 1)
         ELSE IF c = "\\" THEN
             IF i + 1 > Len(s) THEN ParseFail
             ELSE LET e == Ch(s, i + 1) IN
                  IF e = "n" THEN ParseStringBody(s, i + 2, acc \o "\n")
                  ELSE IF e \in {"\"", "\\", "/"} THEN ParseStringBody(s, i + 2, acc \o e)
                  ELSE ParseFail
         ELSE IF c \in {"\n", "\t", "\r"} THEN ParseFail
         ELSE ParseStringBody(s, i + 1, acc \o c)

RECURSIVE DigitsEnd(_, _)
DigitsEnd(s, i) ==
    IF i <= Len(s) /\ Ch(s, i) \in Digits THEN DigitsEnd(s, i + 1) ELSE i

\* s[i] is a digit
ParseNumber(s, i) ==
    LET j == IF Ch(s, i) = "0" THEN i + 1 ELSE DigitsEnd(s, i)
    IN  ParseOk([t |-> "num", s |-> SubSeq(s, i, j - 1)], j)

RECURSIVE ParseValue(_, _)
RECURSIVE ParseElements(_, _, _)

ParseValue(s, i) ==
    IF i > Len(s) THEN ParseFail
    ELSE LET c == Ch(s, i) IN
         IF c = "[" THEN
             LET j == SkipWs(s, i + 1) IN
             IF j <= Len(s) /\ Ch(s, j) = "]"
             THEN ParseOk([t |-> "arr", items |-> <<>>], j + 1)
             ELSE ParseElements(s, j, <<>>)
         ELSE IF c = "\"" THEN ParseStringBody(s, i + 1, "")
         ELSE IF c \in Digits THEN ParseNumber(s, i)
         ELSE ParseFail

\* s[i..] is the rest of an array: a value, then "," and more, or "]"
ParseElements(s, i, acc) ==
    LET r == ParseValue(s, i) IN
    IF ~r.ok THEN ParseFail
    ELSE LET k == SkipWs(s, r.next) IN
         IF k > Len(s) THEN ParseFail
         ELSE IF Ch(s, k) = "," THEN ParseElements(s, SkipWs(s, k + 1), Append(acc, r.val))
         ELSE IF Ch(s, k) = "]"
              THEN ParseOk([t |-> "arr", items |-> Append(acc, r.val)], k + 1)
         ELSE ParseFail

\* JSON.parse: the parsed value, or ParseFail where JSON.parse throws SyntaxError
JSONParse(s) ==
    LET r == ParseValue(s, SkipWs(s, 1)) IN
    IF r.ok /\ SkipWs(s, r.next) = Len(s) + 1 THEN r ELSE ParseFail

\* Array.isArray
IsArray(val) == val.t = "arr"

\* typeof p === 'string'
IsString(val) == val.t = "str"

(***************************************************************************)
(* geminiService.ts                                                        *)
(***************************************************************************)
\* extractJsonArray parsing the whole text instead of the bracketed substring
extractJsonArrayOfWholeText(text) ==
    LET parsed == JSONParse(text) IN
    IF parsed.ok
    THEN IF IsArray(parsed.val)
         THEN Returned(Some(parsed.val.items), <<>>)
         ELSE Returned(Null,
                 <<LogEv("WARN", "Parsed JSON from Gemini response was not an array.")>>)
    ELSE Returned(Null,
            <<LogEv("ERROR", "Failed to parse extracted JSON string from Gemini response.")>>)

\* extractJsonArray returning an empty array when it finds no bracket pair
extractJsonArrayEmptyWithoutBrackets(text) ==
    LET startIndex == IndexOf(text, "[")
        endIndex   == LastIndexOf(text, "]")
    IN
    IF startIndex = -1 \/ endIndex = -1 \/ endIndex < startIndex
    THEN Returned(Some(<<>>),
            <<LogEv("WARN", "Could not find start/end brackets for JSON array in Gemini response.")>>)
    ELSE extractJsonArrayOfWholeText(Substring(text, startIndex, endIndex + 1))

\* extractJsonArray: value is Some(items) or Null
extractJsonArray(text) ==
    LET startIndex == IndexOf(text, "[")
        endIndex   == LastIndexOf(text, "]")
    IN
    IF startIndex = -1 \/ endIndex = -1 \/ endIndex < startIndex
    THEN Returned(Null,
            <<LogEv("WARN", "Could not find start/end brackets for JSON array in Gemini response.")>>)
    ELSE LET jsonString == Substring(text, startIndex, endIndex + 1)
             parsed     == JSONParse(jsonString)
         IN
         IF parsed.ok
         THEN IF IsArray(parsed.val)
              THEN Returned(Some(parsed.val.items), <<>>)
              ELSE Returned(Null,
                      <<LogEv("WARN", "Parsed JSON from Gemini response was not an array.")>>)
         ELSE Returned(Null,
                 <<LogEv("ERROR", "Failed to parse extracted JSON string from Gemini response.")>>)

\* reviewPoints.every(p => typeof p === 'string')
EveryString(items) == \A i \in 1..Len(items) : IsString(items[i])

\* mutant: the element check is dropped
IsValidReviewAnyArray(reviewPoints) == reviewPoints # Null

\* reviewPoints && reviewPoints.every(...)
IsValidReview(reviewPoints) == reviewPoints # Null /\ EveryString(reviewPoints.v)

\* the try block of generateReview, after the prompt is built
generateReviewTry(ai) ==
    LET sent == <<LogEv("DEBUG", "Sending prompt to Gemini for"),
                  CallEv("Gemini", "generateContent")>>
    IN
    IF ai.threw THEN Thrown(ai.fault, sent)
    ELSE IF ai.candidates <= 0      \* !response.candidates || length === 0
    THEN Thrown(GeminiSafetyError("Review generation was blocked. The content might be sensitive."),
                sent \o <<LogEv("ERROR", "Gemini response blocked for safety reasons for")>>)
    ELSE LET received == sent \o <<LogEv("DEBUG", "Received Gemini response for")>> IN
         IF ~ai.hasText             \* response.text is undefined: .trim() throws
         THEN Thrown(JsError("TypeError",
                             "Cannot read properties of undefined (reading 'trim')"),
                     received)
         ELSE LET rawText == Trim(ai.text)
                  ex      == extractJsonArray(rawText)
              IN
              IF IsValidReview(ex.value)
              THEN Returned(ex.value.v, received \o ex.trace)   \* reviewPoints as string[]
              ELSE Thrown(ApiError("Gemini did not return a valid array of strings."),
                          received \o ex.trace
                          \o <<LogEv("ERROR", "Invalid JSON or structure received from Gemini:")>>)

\* mutant: the catch block without the `instanceof ApiError` pass-through
generateReviewCatchNoPassThrough(err) ==
    LET errorMessage == ToLowerCase(ErrorToString(err)) IN
    IF Includes(errorMessage, "api key not valid") THEN InvalidApiKeyError("Gemini")
    ELSE IF Includes(errorMessage, "quota") \/ Includes(errorMessage, "rate limit")
    THEN RateLimitError("Gemini")
    ELSE ApiError("An unexpected error occurred while generating the review.")

\* the catch block with the quota test ahead of the credential test
generateReviewCatchQuotaFirst(err) ==
    LET errorMessage == ToLowerCase(ErrorToString(err)) IN
    IF Includes(errorMessage, "quota") \/ Includes(errorMessage, "rate limit")
    THEN RateLimitError("Gemini")
    ELSE IF Includes(errorMessage, "api key not valid") THEN InvalidApiKeyError("Gemini")
    ELSE IF err.isApiError THEN err
    ELSE ApiError("An unexpected error occurred while generating the review.")

\* the catch block of generateReview: the error it throws for the error caught
generateReviewCatch(err) ==
    LET errorMessage == ToLowerCase(ErrorToString(err)) IN
    IF Includes(errorMessage, "api key not valid") THEN InvalidApiKeyError("Gemini")
    ELSE IF Includes(errorMessage, "quota") \/ Includes(errorMessage, "rate limit")
    THEN RateLimitError("Gemini")
    ELSE IF err.isApiError THEN err
    ELSE ApiError("An unexpected error occurred while generating the review.")

\* generateReview invoking the model a second time when the first attempt fails
generateReviewRetrying(metadata, apiKey, ai) ==
    IF apiKey = ""
    THEN Thrown(InvalidApiKeyError("Gemini (key not provided)"), <<>>)
    ELSE LET start == <<LogEv("INFO", "Generating review for:")>>
             body  == generateReviewTry(ai)
             again == generateReviewTry(ai)
         IN
         IF body.ok
         THEN Returned(body.value, start \o body.trace)
         ELSE Thrown(generateReviewCatch(again.error),
                     start \o body.trace
                     \o <<LogEv("ERROR", "Error generating review with Gemini for")>>
                     \o again.trace
                     \o <<LogEv("ERROR", "Error generating review with Gemini for")>>)

\* generateReview(metadata, geminiApiKey); ai is what generateContent does.
\* The prompt text and the interpolated content title are left out of the trace.
generateReview(metadata, apiKey, ai) ==
    IF apiKey = ""
    THEN Thrown(InvalidApiKeyError("Gemini (key not provided)"), <<>>)
    ELSE LET start == <<LogEv("INFO", "Generating review for:")>>
             body  == generateReviewTry(ai)
         IN
         IF body.ok
         THEN Returned(body.value, start \o body.trace)
         ELSE Thrown(generateReviewCatch(body.error),
                     start \o body.trace
                     \o <<LogEv("ERROR", "Error generating review with Gemini for")>>)


(***************************************************************************)
(* Number conversions.                                                     *)
(***************************************************************************)
DigitChars == "0123456789"

DigitValue(c) == (CHOOSE i \in 1..10 : Ch(DigitChars, i) = c) - 1

RECURSIVE DecimalValue(_)
\* value of a non-empty string of digits
DecimalValue(s) ==
    IF Len(s) = 1 THEN DigitValue(s)
    ELSE 10 * DecimalValue(SubSeq(s, 1, Len(s) - 1)) + DigitValue(Ch(s, Len(s)))

\* NaN, as the result of parseInt
NaN == -1

\* parseInt on unsigned input: the leading digits after white space, NaN if none
ParseInt(s) ==
    LET t == TrimStart(s)
        n == DigitsEnd(t, 1) - 1
    IN  IF n = 0 THEN NaN ELSE DecimalValue(SubSeq(t, 1, n))

RECURSIVE ToStr(_)
\* template-literal conversion of a non-negative integer
ToStr(n) ==
    IF n < 10 THEN Ch(DigitChars, n + 1)
    ELSE ToStr(n \div 10) \o Ch(DigitChars, (n % 10) + 1)

\* s.split(sep)[0]
SplitFirst(s, sep) ==
    IF IndexOf(s, sep) = -1 THEN s ELSE Substring(s, 0, IndexOf(s, sep))

\* the truthiness of an optional number (undefined, 0 and NaN are falsy)
Truthy(x) == x # Null /\ x.v # 0 /\ x.v # NaN

(***************************************************************************)
(* metadataService.ts.  What the network does for one fetch is an          *)
(* outcome [rejected, status, decodable, data]; the outcomes of the        *)
(* fetches of a call are its env argument.                                 *)
(***************************************************************************)
FetchRejected == [rejected |-> TRUE, status |-> 0, decodable |-> FALSE, data |-> Null]

FetchResponse(status, decodable, data) ==
    [rejected |-> FALSE, status |-> status, decodable |-> decodable, data |-> data]

\* Response.ok
ResponseOk(res) == res.status >= 200 /\ res.status <= 299

\* Response.json(): the decoded body, or the SyntaxError of an undecodable one
ResponseJson(res) ==
    IF res.decodable THEN Returned(res.data, <<>>)
    ELSE Thrown(JsError("SyntaxError", "Unexpected token < in JSON at position 0"), <<>>)

\* handleApiResponse with the switch reduced to its default case
handleApiResponseDefaultOnly(res, serviceName) ==
    IF ResponseOk(res) THEN ResponseJson(res)
    ELSE Thrown(ApiError("An unexpected error occurred with " \o serviceName
                         \o " (Status: " \o ToStr(res.status) \o ")."),
                <<LogEv("ERROR", "API Error from " \o serviceName)>>)

handleApiResponse(res, serviceName) ==
    IF ResponseOk(res) THEN ResponseJson(res)
    ELSE LET status == res.status
             err == CASE status = 401 -> InvalidApiKeyError(serviceName)
                      [] status = 404 ->
                           NotFoundError(serviceName \o " could not find the requested resource.")
                      [] status = 429 -> RateLimitError(serviceName)
                      [] OTHER -> ApiError("An unexpected error occurred with " \o serviceName
                                           \o " (Status: " \o ToStr(status) \o ").")
         IN  Thrown(err, <<LogEv("ERROR", "API Error from " \o serviceName)>>)

\* await fetchViaProxy(url): the Response, or the TypeError of a rejected fetch
fetchViaProxy(url, outcome) ==
    LET trace == <<LogEv("DEBUG", "Fetching via proxy:"), CallEv("fetch", url)>> IN
    IF outcome.rejected
    THEN Thrown(JsError("TypeError", "Failed to fetch"), trace)
    ELSE Returned(outcome, trace)

\* reading property p of the decoded body, undefined when absent
HasProp(data, p) == p \in DOMAIN data

\* the fault of indexing an undefined property
UndefinedRead(what) ==
    JsError("TypeError", "Cannot read properties of undefined (reading '" \o what \o "')")

\* date ? parseInt(date.split('-')[0]) : 0
YearOf(date) == IF date = "" THEN 0 ELSE ParseInt(SplitFirst(date, "-"))

\* mutant: a lookup with no movie record resolves to null instead of throwing
getMetadataMovieNullWhenMissing(imdbId, findData, trace) ==
    IF ~HasProp(findData, "movie_results") THEN Thrown(UndefinedRead("0"), trace)
    ELSE IF Len(findData.movie_results) = 0
    THEN Returned(Null, trace)
    ELSE LET movie == findData.movie_results[1] IN
         Returned([imdbId |-> imdbId, tmdbId |-> movie.id, type |-> "movie",
                   title |-> movie.title, year |-> YearOf(movie.release_date),
                   overview |-> movie.overview],
                  trace \o <<LogEv("DEBUG", "Found movie:")>>)

\* the movie branch of getMetadata
getMetadataMovie(imdbId, findData, trace) ==
    IF ~HasProp(findData, "movie_results") THEN Thrown(UndefinedRead("0"), trace)
    ELSE IF Len(findData.movie_results) = 0
    THEN Thrown(NotFoundError("Movie with IMDb ID " \o imdbId \o " not found."), trace)
    ELSE LET movie == findData.movie_results[1] IN
         Returned([imdbId |-> imdbId, tmdbId |-> movie.id, type |-> "movie",
                   title |-> movie.title, year |-> YearOf(movie.release_date),
                   overview |-> movie.overview],
                  trace \o <<LogEv("DEBUG", "Found movie:")>>)

\* the series branch returning the episode fields it was given without a lookup
getMetadataSeriesEchoingEpisode(imdbId, season, episode, findData, env, trace) ==
    IF ~HasProp(findData, "tv_results") THEN Thrown(UndefinedRead("0"), trace)
    ELSE IF Len(findData.tv_results) = 0
    THEN Thrown(NotFoundError("Series with IMDb ID " \o imdbId \o " not found."), trace)
    ELSE LET series == findData.tv_results[1] IN
         Returned([imdbId |-> imdbId, tmdbId |-> series.id, type |-> "series",
                   title |-> series.name, year |-> YearOf(series.first_air_date),
                   overview |-> series.overview,
                   season |-> season, episode |-> episode, episodeTitle |-> Null],
                  trace \o <<LogEv("DEBUG", "Found series:")>>)

\* the series branch of getMetadata
getMetadataSeries(imdbId, season, episode, findData, env, trace) ==
    IF ~HasProp(findData, "tv_results") THEN Thrown(UndefinedRead("0"), trace)
    ELSE IF Len(findData.tv_results) = 0
    THEN Thrown(NotFoundError("Series with IMDb ID " \o imdbId \o " not found."), trace)
    ELSE LET series == findData.tv_results[1]
             found  == trace \o <<LogEv("DEBUG", "Found series:")>>
         IN
         IF Truthy(season) /\ Truthy(episode)
         THEN LET episodeUrl == "/tv/" \o ToStr(series.id) \o "/season/" \o ToStr(season.v)
                                \o "/episode/" \o ToStr(episode.v)
                  episodeResponse ==
                      fetchViaProxy(episodeUrl, env.episode)
                  t1 == found \o <<LogEv("DEBUG", "Fetching details for Season")>>
                        \o episodeResponse.trace
              IN
              IF ~episodeResponse.ok THEN Thrown(episodeResponse.error, t1)
              ELSE LET episodeData == handleApiResponse(episodeResponse.value, "TMDB") IN
                   IF ~episodeData.ok
                   THEN Thrown(episodeData.error, t1 \o episodeData.trace)
                   ELSE Returned([imdbId |-> imdbId, tmdbId |-> series.id,
                                  type |-> "series", title |-> series.name,
                                  year |-> YearOf(series.first_air_date),
                                  overview |-> episodeData.value.overview,
                                  season |-> season.v, episode |-> episode.v,
                                  episodeTitle |-> episodeData.value.name],
                                 t1)
         ELSE Returned([imdbId |-> imdbId, tmdbId |-> series.id, type |-> "series",
                        title |-> series.name, year |-> YearOf(series.first_air_date),
                        overview |-> series.overview],
                       found)

\* getMetadata(params); params = [type, imdbId, season, episode] with season and
\* episode Null or Some(number); env = [find, episode]
getMetadata(params, env) ==
    LET findResponse == fetchViaProxy("/find/" \o params.imdbId, env.find)
        start == <<LogEv("INFO", "Fetching metadata for imdbId:")>> \o findResponse.trace
    IN
    IF ~findResponse.ok THEN Thrown(findResponse.error, start)
    ELSE LET findData == handleApiResponse(findResponse.value, "TMDB")
             t1 == start \o findData.trace
         IN
         IF ~findData.ok THEN Thrown(findData.error, t1)
         ELSE IF params.type = "movie"
              THEN getMetadataMovie(params.imdbId, findData.value, t1)
         ELSE IF params.type = "series"
              THEN getMetadataSeries(params.imdbId, params.season, params.episode,
                                     findData.value, env, t1)
         ELSE Returned(Null, t1)

\* first index of a sequence of outcomes that is a throw, 0 if none
FirstThrown(outs) ==
    IF \E i \in 1..Len(outs) : ~outs[i].ok
    THEN CHOOSE i \in 1..Len(outs) : ~outs[i].ok /\ \A j \in 1..(i - 1) : outs[j].ok
    ELSE 0

RECURSIVE ConcatAll(_)
ConcatAll(seqs) == IF Len(seqs) = 0 THEN <<>> ELSE Head(seqs) \o ConcatAll(Tail(seqs))

\* getMovieDetails up to its first await: both fetches are issued
getMovieDetailsIssue(movieId) ==
    <<LogEv("DEBUG", "Fetching extended details for movie ID:")>>
    \o fetchViaProxy("/movie/" \o ToStr(movieId), FetchRejected).trace
    \o fetchViaProxy("/movie/" \o ToStr(movieId) \o "/credits", FetchRejected).trace

\* creditsData.cast?.slice(0, 3).map(actor => actor.name) || []
CastOf(creditsData) ==
    IF HasProp(creditsData, "cast")
    THEN [i \in 1..Min(3, Len(creditsData.cast)) |-> creditsData.cast[i].name]
    ELSE <<>>

\* detailsData.production_countries?.[0]?.iso_3166_1 || ''
OriginCountryOf(detailsData) ==
    IF HasProp(detailsData, "production_countries")
       /\ Len(detailsData.production_countries) > 0
    THEN detailsData.production_countries[1].iso_3166_1
    ELSE ""

\* getMovieDetails after Promise.all of the two fetches; env = [details, credits].
\* When both fetches reject the rejection of the first one is the one seen.
getMovieDetailsSettle(env) ==
    LET detailsRes == fetchViaProxy("", env.details)
        creditsRes == fetchViaProxy("", env.credits)
    IN
    IF ~detailsRes.ok THEN Thrown(detailsRes.error, <<>>)
    ELSE IF ~creditsRes.ok THEN Thrown(creditsRes.error, <<>>)
    ELSE IF ~ResponseOk(detailsRes.value) \/ ~ResponseOk(creditsRes.value)
    THEN Returned([cast |-> <<>>, originCountry |-> ""],
                  <<LogEv("WARN", "Could not fetch full details for movie ID. Failing gracefully.")>>)
    ELSE LET detailsData == ResponseJson(detailsRes.value)
             creditsData == ResponseJson(creditsRes.value)
         IN
         IF ~detailsData.ok THEN Thrown(detailsData.error, <<>>)
         ELSE IF ~creditsData.ok THEN Thrown(creditsData.error, <<>>)
         ELSE Returned([cast |-> CastOf(creditsData.value),
                        originCountry |-> OriginCountryOf(detailsData.value)],
                       <<>>)

\* getMovieDetails(movieId, apiKey)
getMovieDetails(movieId, env) ==
    LET r == getMovieDetailsSettle(env) IN
    IF r.ok THEN Returned(r.value, getMovieDetailsIssue(movieId) \o r.trace)
    ELSE Thrown(r.error, getMovieDetailsIssue(movieId) \o r.trace)

\* the candidate built from a search result and its details
MovieCandidate(result, details) ==
    [tmdbId |-> result.id, type |-> "movie", title |-> result.title,
     year |-> YearOf(result.release_date), overview |-> result.overview,
     cast |-> details.cast, originCountry |-> details.originCountry]

SeriesCandidate(result) ==
    [tmdbId |-> result.id, type |-> "series", title |-> result.name,
     year |-> YearOf(result.first_air_date), overview |-> result.overview]

\* searchByTitle(params); params = [title, type]; env = [search, movies], movies[i]
\* the outcomes [details, credits] of the two fetches for the i-th result.
\* Promise.all: every getMovieDetails is started before any is settled, and the
\* search rejects when one of them rejects (the lowest-numbered rejection is taken).
searchByTitle(params, env) ==
    LET endpoint == IF params.type = "movie" THEN "/search/movie" ELSE "/search/tv"
        fetched  == fetchViaProxy(endpoint, env.search)
        start    == <<LogEv("INFO", "Searching for")>> \o fetched.trace
    IN
    IF ~fetched.ok THEN Thrown(fetched.error, start)
    ELSE LET data == handleApiResponse(fetched.value, "TMDB")
             t1   == start \o data.trace
         IN
         IF ~data.ok THEN Thrown(data.error, t1)
         ELSE IF ~HasProp(data.value, "results") \/ Len(data.value.results) = 0
         THEN Returned(<<>>, t1 \o <<LogEv("WARN", "No results found for query:")>>)
         ELSE LET results == data.value.results
                  n       == Len(results)
                  t2      == t1 \o <<LogEv("DEBUG", "Found results for query:")>>
              IN
              IF params.type = "movie"
              THEN LET settled == [i \in 1..n |-> getMovieDetailsSettle(env.movies[i])]
                       issued  == ConcatAll([i \in 1..n |-> getMovieDetailsIssue(results[i].id)])
                       after   == ConcatAll([i \in 1..n |-> settled[i].trace])
                       failed  == FirstThrown(settled)
                   IN
                   IF failed # 0
                   THEN Thrown(settled[failed].error, t2 \o issued \o after)
                   ELSE Returned([i \in 1..n |-> MovieCandidate(results[i], settled[i].value)],
                                 t2 \o issued \o after)
              ELSE Returned([i \in 1..n |-> SeriesCandidate(results[i])], t2)

\* data.seasons.filter(s => s.season_number > 0), in order
RECURSIVE FilterSeasons(_)
FilterSeasons(seasons) ==
    IF Len(seasons) = 0 THEN <<>>
    ELSE IF Head(seasons).season_number > 0
    THEN <<Head(seasons)>> \o FilterSeasons(Tail(seasons))
    ELSE FilterSeasons(Tail(seasons))

\* getSeriesDetails(tmdbId, apiKey); env = [series]; the imdbId of the result is
\* Null for undefined
getSeriesDetails(tmdbId, env) ==
    LET fetched == fetchViaProxy("/tv/" \o ToStr(tmdbId), env.series)
        start   == <<LogEv("INFO", "Fetching series details for TMDB ID:")>> \o fetched.trace
    IN
    IF ~fetched.ok THEN Thrown(fetched.error, start)
    ELSE LET data == handleApiResponse(fetched.value, "TMDB")
             t1   == start \o data.trace
         IN
         IF ~data.ok THEN Thrown(data.error, t1)
         ELSE IF ~HasProp(data.value, "seasons") THEN Thrown(UndefinedRead("filter"), t1)
         ELSE Returned([seasons |-> FilterSeasons(data.value.seasons),
                        imdbId  |-> IF HasProp(data.value, "external_ids")
                                       /\ HasProp(data.value.external_ids, "imdb_id")
                                       /\ data.value.external_ids.imdb_id # ""
                                    THEN Some(data.value.external_ids.imdb_id)
                                    ELSE Null],
                       t1 \o <<LogEv("DEBUG", "Found seasons for TMDB ID:")>>)

(***************************************************************************)
(* generateReview called on its own: every key and every behaviour of the  *)
(* model call, the model's text ranging over all strings of at most        *)
(* MaxTextLen characters of TextAlphabet and over SampleTexts.             *)
(***************************************************************************)
TextAlphabet == {"[", "]", ",", "\"", "a", "1", " "}

RECURSIVE TextsOfLen(_)
TextsOfLen(n) ==
    IF n = 0 THEN {""}
    ELSE {t \o c : t \in TextsOfLen(n - 1), c \in TextAlphabet}

Texts == UNION {TextsOfLen(n) : n \in 0..MaxTextLen}

EightLines == "[\"p1\",\"p2\",\"p3\",\"p4\",\"p5\",\"p6\",\"p7\",\"p8\"]"

SampleTexts ==
    {EightLines,
     "Here is the review: " \o EightLines \o " Enjoy!",
     "json\n" \o EightLines \o "\n",
     "[\"p1\",\"p2\"]",
     "[\"p1\",\"\",\"p3\",\"p4\",\"p5\",\"p6\",\"p7\",\"p8\"]",
     "[\"p1\",2,\"p3\",\"p4\",\"p5\",\"p6\",\"p7\",\"p8\"]",
     "[\"p1\",[\"p2\"],\"p3\"]",
     "[\"p1\\np2\",\"p3\"]",
     "[1] see [\"p1\"]",
     "[\"p1\"] and [\"p2\"]",
     "no array here",
     "] reversed ["}

\* faults thrown by ai.models.generateContent (errors of the SDK or of fetch)
AiFaults ==
    {JsError("Error", "API key not valid. Please pass a valid API key."),
     JsError("Error", "You exceeded your current quota."),
     JsError("Error", "Rate limit reached for requests."),
     JsError("Error", "API KEY NOT VALID; quota exceeded"),
     JsError("TypeError", "Failed to fetch"),
     JsError("Error", "")}

AiThrow(fault) ==
    [threw |-> TRUE, fault |-> fault, candidates |-> -1, hasText |-> FALSE, text |-> ""]

\* candidates: -1 for an absent list, otherwise its length
AiRespond(candidates, hasText, text) ==
    [threw |-> FALSE, fault |-> Null, candidates |-> candidates,
     hasText |-> hasText, text |-> text]

AiBehaviours(texts) ==
    {AiThrow(f) : f \in AiFaults}
    \cup {AiRespond(-1, FALSE, ""), AiRespond(0, FALSE, ""), AiRespond(1, FALSE, "")}
    \cup {AiRespond(1, TRUE, t) : t \in texts}

SampleMovie ==
    [imdbId |-> "tt1", tmdbId |-> 1, type |-> "movie", title |-> "M", year |-> 1999,
     overview |-> "o"]

GenIdle == geminiApiKey = "" /\ aiResponse = Null /\ genResult = Null /\ extracted = Null

\* text around the array: what a model adds before and after it (no brackets)
Noises ==
    {[before |-> "Here is the review: ", after |-> ""],
     [before |-> "", after |-> "\nEnjoy!"],
     [before |-> "json\n", after |-> "\n"]}

GenInit ==
    /\ geminiApiKey \in {"", "k"}
    /\ aiResponse \in AiBehaviours(Texts \cup SampleTexts)
    /\ genResult = Null
    /\ extracted = Null

GenerateReviewCall ==
    /\ genResult = Null
    /\ extracted = Null
    /\ genResult' = generateReview(SampleMovie, geminiApiKey, aiResponse)
    /\ UNCHANGED <<geminiApiKey, aiResponse, extracted, metaVars, cfgVars, logVars,
                   keyVars, stVars, tgVars>>

\* extractJsonArray called on its own, on the text of the response and on the
\* same text with other text around it
ExtractJsonArrayCall ==
    /\ genResult = Null
    /\ extracted = Null
    /\ ~aiResponse.threw
    /\ aiResponse.hasText
    /\ \E noise \in Noises :
         extracted' = [text    |-> aiResponse.text,
                       noise   |-> noise,
                       clean   |-> extractJsonArray(aiResponse.text),
                       wrapped |-> extractJsonArray(noise.before \o aiResponse.text
                                                    \o noise.after)]
    /\ UNCHANGED <<geminiApiKey, aiResponse, genResult, metaVars, cfgVars, logVars,
                   keyVars, stVars, tgVars>>


(***************************************************************************)
(* The catalog: records, and what a fetch of each endpoint can do.         *)
(***************************************************************************)
MovieRecord(i) ==
    [id |-> i, title |-> "M" \o ToStr(i),
     release_date |-> IF i = 1 THEN "1999-03-31" ELSE "",
     overview |-> "movie overview"]

SeriesRecord(i) ==
    [id |-> i, name |-> "S" \o ToStr(i),
     first_air_date |-> IF i = 1 THEN "2005-03-24" ELSE "",
     overview |-> "series overview"]

MovieList(n) == [i \in 1..n |-> MovieRecord(i)]
SeriesList(n) == [i \in 1..n |-> SeriesRecord(i)]

\* the body of an error response, also a 2xx body of an unexpected shape
ErrorBody == [status_message |-> "error"]

FailureStatuses == {401, 404, 429, 500}

\* outcomes that fail the call whatever the endpoint
FailedOutcomes ==
    {FetchRejected, FetchResponse(200, FALSE, Null)}
    \cup {FetchResponse(st, TRUE, ErrorBody) : st \in FailureStatuses}

FindOutcomes ==
    FailedOutcomes
    \cup {FetchResponse(403, TRUE, ErrorBody), FetchResponse(200, TRUE, ErrorBody)}
    \cup {FetchResponse(200, TRUE, [movie_results |-> MovieList(m), tv_results |-> SeriesList(t)]) :
            m \in 0..1, t \in 0..1}

EpisodeBody == [name |-> "Pilot", overview |-> "episode overview"]

EpisodeOutcomes == FailedOutcomes \cup {FetchResponse(200, TRUE, EpisodeBody)}

SearchOutcomes(kind) ==
    FailedOutcomes
    \cup {FetchResponse(200, TRUE, ErrorBody)}
    \cup {FetchResponse(200, TRUE,
                        [results |-> IF kind = "movie" THEN MovieList(n) ELSE SeriesList(n)]) :
            n \in 0..MaxResults}

DetailsBody == [production_countries |-> <<[iso_3166_1 |-> "US"], [iso_3166_1 |-> "GB"]>>]

CreditsBody ==
    [cast |-> <<[name |-> "A1"], [name |-> "A2"], [name |-> "A3"], [name |-> "A4"]>>]

DetailsOutcomes ==
    {FetchRejected, FetchResponse(200, FALSE, Null), FetchResponse(500, TRUE, ErrorBody),
     FetchResponse(200, TRUE, ErrorBody), FetchResponse(200, TRUE, DetailsBody)}

CreditsOutcomes ==
    {FetchRejected, FetchResponse(200, FALSE, Null), FetchResponse(404, TRUE, ErrorBody),
     FetchResponse(200, TRUE, ErrorBody), FetchResponse(200, TRUE, CreditsBody)}

\* the outcomes of the two fetches of getMovieDetails
MovieDetailsEnvs == [details : DetailsOutcomes, credits : CreditsOutcomes]

\* number of results a search outcome carries
ResultCount(outcome) ==
    IF ~outcome.rejected /\ ResponseOk(outcome) /\ outcome.decodable
       /\ HasProp(outcome.data, "results")
    THEN Len(outcome.data.results)
    ELSE 0

SeasonsBody ==
    [seasons |-> <<[season_number |-> 0, episode_count |-> 3, name |-> "Specials"],
                   [season_number |-> 1, episode_count |-> 2, name |-> "Season 1"],
                   [season_number |-> 2, episode_count |-> 1, name |-> "Season 2"]>>]

SeriesOutcomes ==
    FailedOutcomes
    \cup {FetchResponse(200, TRUE, ErrorBody),
          FetchResponse(200, TRUE, SeasonsBody),
          FetchResponse(200, TRUE, [seasons |-> SeasonsBody.seasons,
                                    external_ids |-> [imdb_id |-> "tt7"]]),
          FetchResponse(200, TRUE, [seasons |-> SeasonsBody.seasons,
                                    external_ids |-> [imdb_id |-> ""]])}

MediaTypes == {"movie", "series"}

OptionalNumbers == {Null, Some(0), Some(1), Some(2)}

(***************************************************************************)
(* The functions of metadataService called on their own.                   *)
(***************************************************************************)
GetMetadataCalls ==
    {[fn |-> "getMetadata",
      params |-> [type |-> t, imdbId |-> "tt1", season |-> s, episode |-> e],
      env |-> [find |-> f, episode |-> ep]] :
        t \in MediaTypes, s \in OptionalNumbers, e \in OptionalNumbers,
        f \in FindOutcomes, ep \in EpisodeOutcomes}

\* the searches of kind t
SearchByTitleCalls(t) ==
    UNION {{[fn |-> "searchByTitle",
             params |-> [title |-> "q", type |-> t],
             env |-> [search |-> so, movies |-> ms]] :
               ms \in [1..(IF t = "movie" THEN ResultCount(so) ELSE 0) -> MovieDetailsEnvs]} :
           so \in SearchOutcomes(t)}

GetSeriesDetailsCalls ==
    {[fn |-> "getSeriesDetails", params |-> [tmdbId |-> 1], env |-> [series |-> so]] :
        so \in SeriesOutcomes}

MetaInit ==
    /\ metaCall \in GetMetadataCalls \cup SearchByTitleCalls("movie")
                    \cup SearchByTitleCalls("series") \cup GetSeriesDetailsCalls
    /\ metaResult = Null

GetMetadataCall ==
    /\ metaResult = Null
    /\ metaCall.fn = "getMetadata"
    /\ metaResult' = getMetadata(metaCall.params, metaCall.env)
    /\ UNCHANGED <<metaCall, genVars, cfgVars, logVars, keyVars, stVars, tgVars>>

SearchByTitleCall ==
    /\ metaResult = Null
    /\ metaCall.fn = "searchByTitle"
    /\ metaResult' = searchByTitle(metaCall.params, metaCall.env)
    /\ UNCHANGED <<metaCall, genVars, cfgVars, logVars, keyVars, stVars, tgVars>>

GetSeriesDetailsCall ==
    /\ metaResult = Null
    /\ metaCall.fn = "getSeriesDetails"
    /\ metaResult' = getSeriesDetails(metaCall.params.tmdbId, metaCall.env)
    /\ UNCHANGED <<metaCall, genVars, cfgVars, logVars, keyVars, stVars, tgVars>>

(***************************************************************************)
(* useApiKeys.ts                                                           *)
(***************************************************************************)
DefaultKeys == [tmdb |-> "", tvdb |-> "", gemini |-> ""]

\* { ...prevKeys, ...parsed }
Merge(prev, parsed) ==
    [k \in DOMAIN prev \cup DOMAIN parsed |->
        IF k \in DOMAIN parsed THEN parsed[k] ELSE prev[k]]

\* the localStorage item: absent, not parsable, or an object of string fields
CorruptItem == [corrupt |-> TRUE]

StoredItems ==
    {Null, CorruptItem,
     Some([tmdb |-> "k1", tvdb |-> "k2", gemini |-> "k3"]),
     Some([tmdb |-> "k1", gemini |-> "k3"]),
     Some([tmdb |-> "k1", tvdb |-> " ", gemini |-> "k3"]),
     Some([tmdb |-> "k1", tvdb |-> "k2", gemini |-> ""])}

\* the keys after the effect of useApiKeys has read the item
LoadedKeys(item, prev) ==
    IF item = Null \/ item = CorruptItem THEN prev ELSE Merge(prev, item.v)

\* areKeysSetup
areKeysSetup ==
    Trim(keys.tmdb) # "" /\ Trim(keys.tvdb) # "" /\ Trim(keys.gemini) # ""

(***************************************************************************)
(* StremioHandler.tsx: the pattern                                         *)
(*   /\/stream\/(movie|series)\/(tt\d+)(?::(\d+):(\d+))?\.json/            *)
(* matched as String.prototype.match does: at the leftmost position where  *)
(* it matches, anywhere in the path.                                       *)
(***************************************************************************)
\* mutant: \d* in place of \d+
DigitsStar(p, i) == DigitsEnd(p, i)

\* \d+ at position i: the position after the digits, 0 when there is no digit
DigitsPlus(p, i) == IF DigitsEnd(p, i) > i THEN DigitsEnd(p, i) ELSE 0

\* (?::(\d+):(\d+))? then \.json at position i: [ok, season, episode, end]
MatchTail(p, i) ==
    LET s0 == i + 1
        s1 == DigitsPlus(p, s0)
        e0 == s1 + 1
        e1 == DigitsPlus(p, e0)
        withGroup == /\ OccursAt(p, ":", i)
                     /\ s1 # 0
                     /\ OccursAt(p, ":", s1)
                     /\ e1 # 0
                     /\ OccursAt(p, ".json", e1)
    IN
    IF withGroup
    THEN [ok |-> TRUE, season |-> Some(SubSeq(p, s0, s1 - 1)),
          episode |-> Some(SubSeq(p, e0, e1 - 1)), end |-> e1 + 5]
    ELSE IF OccursAt(p, ".json", i)
    THEN [ok |-> TRUE, season |-> Null, episode |-> Null, end |-> i + 5]
    ELSE [ok |-> FALSE]

\* the pattern at position i: [ok, type, imdbId, season, episode, end]
MatchAt(p, i) ==
    LET kind == IF OccursAt(p, "/stream/movie/", i) THEN "movie"
                ELSE IF OccursAt(p, "/stream/series/", i) THEN "series"
                ELSE ""
        t0   == i + Len("/stream/") + Len(kind) + 1
        d1   == DigitsPlus(p, t0 + 2)
    IN
    IF kind # "" /\ OccursAt(p, "tt", t0) /\ d1 # 0 /\ MatchTail(p, d1).ok
    THEN [ok |-> TRUE, type |-> kind, imdbId |-> SubSeq(p, t0, d1 - 1),
          season |-> MatchTail(p, d1).season, episode |-> MatchTail(p, d1).episode,
          end |-> MatchTail(p, d1).end]
    ELSE [ok |-> FALSE]

\* pathname.match(...): the groups of the leftmost match, or Null
StreamMatch(p) ==
    IF \E i \in 1..Len(p) : MatchAt(p, i).ok
    THEN MatchAt(p, CHOOSE i \in 1..Len(p) :
                        MatchAt(p, i).ok /\ \A j \in 1..(i - 1) : ~MatchAt(p, j).ok)
    ELSE Null

(***************************************************************************)
(* The infoHash: (hash * 31 + charCode) | 0 over the characters, as a      *)
(* signed 32-bit integer kept in two 16-bit halves, then toString(16),     *)
(* padStart(40, '0') and slice(0, 40).                                     *)
(***************************************************************************)
Half == 65536

\* char.charCodeAt(0), for the characters of an id ("t" and digits)
CharCode(c) == IF c = "t" THEN 116 ELSE 48 + DigitValue(c)

\* one step of the reduce, on [hi, lo]
HashStep(h, c) ==
    LET lo == h.lo * 31 + CharCode(c)
        hi == h.hi * 31 + lo \div Half
    IN  [hi |-> hi % Half, lo |-> lo % Half]

RECURSIVE HashOf(_, _)
\* the reduce over the characters of s from h
HashOf(s, h) ==
    IF Len(s) = 0 THEN h ELSE HashOf(SubSeq(s, 2, Len(s)), HashStep(h, Ch(s, 1)))

HexChars == "0123456789abcdef"

RECURSIVE Hex(_)
\* base-16 digits of a non-negative integer
Hex(n) == IF n < 16 THEN Ch(HexChars, n + 1) ELSE Hex(n \div 16) \o Ch(HexChars, (n % 16) + 1)

RECURSIVE PadStart(_, _, _)
\* String.prototype.padStart
PadStart(s, n, c) == IF Len(s) >= n THEN s ELSE PadStart(c \o s, n, c)

\* base-16 digits of hi * 65536 + lo
HexOfHalves(hi, lo) ==
    IF hi = 0 THEN Hex(lo) ELSE Hex(hi) \o PadStart(Hex(lo), 4, "0")

\* Number.prototype.toString(16) of the signed 32-bit value of [hi, lo]
Int32ToHex(h) ==
    IF h.hi >= Half \div 2
    THEN "-" \o HexOfHalves(Half - 1 - h.hi + (IF h.lo = 0 THEN 1 ELSE 0),
                            (Half - h.lo) % Half)
    ELSE HexOfHalves(h.hi, h.lo)

\* String.prototype.slice(0, n)
SliceTo(s, n) == SubSeq(s, 1, Min(n, Len(s)))

\* season || '' on an optional match group
OrEmpty(g) == IF g = Null THEN "" ELSE g.v

InfoHash(imdbId, season, episode) ==
    SliceTo(PadStart(Int32ToHex(HashOf(imdbId \o OrEmpty(season) \o OrEmpty(episode),
                                       [hi |-> 0, lo |-> 0])),
                     40, "0"),
            40)

(***************************************************************************)
(* StremioHandler.tsx: the response descriptors and the steps of the       *)
(* handleRequest effect.                                                   *)
(***************************************************************************)
createErrorStream(message) ==
    [streams |-> <<[name |-> "Error", title |-> message,
                    behaviorHints |-> [notPlayable |-> TRUE]]>>]

RECURSIVE JsString(_)
\* the string an element contributes to Array.prototype.join
JsString(val) ==
    IF val.t = "arr"
    THEN Join([i \in 1..Len(val.items) |-> JsString(val.items[i])], ",")
    ELSE val.s

\* mutant: the lines are joined by a blank
ReviewTitleOnOneLine(reviewPoints) ==
    Join([i \in 1..Len(reviewPoints) |-> JsString(reviewPoints[i])], " ")

\* reviewPoints.join('\n')
ReviewTitle(reviewPoints) ==
    Join([i \in 1..Len(reviewPoints) |-> JsString(reviewPoints[i])], "\n")

\* the name is "Gemini Review" and a sparkle character, kept to its ASCII part
ReviewStream(reviewPoints, infoHash) ==
    [streams |-> <<[name |-> "Gemini Review", title |-> ReviewTitle(reviewPoints),
                    infoHash |-> infoHash,
                    behaviorHints |-> [notPlayable |-> TRUE]]>>]

\* mutant: the message of whatever was caught
StreamErrorMessageOfAny(err) == err.message

\* error instanceof ApiError ? error.message : "An unknown error occurred."
StreamErrorMessage(err) ==
    IF err.isApiError THEN err.message ELSE "An unknown error occurred."

\* the catch block of handleRequest
StreamCatch(err) ==
    /\ response' = createErrorStream(StreamErrorMessage(err))
    /\ stRun' = [stRun EXCEPT !.caught = Some(err)]
    /\ stPc' = "done"
    /\ UNCHANGED stFault

\* paths the host application is asked for (App mounts the handler only for
\* paths that start with /stream/)
StreamPaths ==
    {"/stream/movie/tt1.json", "/stream/movie/tt0133093.json",
     "/stream/series/tt1.json", "/stream/series/tt1:1:2.json",
     "/stream/series/tt1:0:2.json", "/stream/series/tt0944947:1:1.json",
     "/stream/movie/tt1:1:2.json",
     "/stream/movie/tt.json", "/stream/movie/1.json", "/stream/tv/tt1.json",
     "/stream/series/tt1:2.json", "/stream/movie/tt1", "/stream/",
     "/stream/movie/tt1json", "/stream/series/tt1:1:.json",
     "/stream/movie/tt1.json/extra", "/stream/x/stream/movie/tt1.json",
     "/stream/movie/tt1.jsonx"}

ReviewTexts == SampleTexts \cup {"[]"}

StreamInit ==
    /\ pathname \in StreamPaths
    /\ storedKeys \in StoredItems
    /\ keys = DefaultKeys
    /\ isReady = FALSE
    /\ response = Null
    /\ stPc = "mount"
    /\ stRun = Null
    /\ effectPending = FALSE
    /\ stTrace = <<>>
    /\ stFault = FALSE

\* the first commit: the effect of useApiKeys reads the stored keys, and
\* handleRequest runs with the values of the first render (isReady false)
Mount ==
    /\ stPc = "mount"
    /\ keys' = LoadedKeys(storedKeys, keys)
    /\ isReady' = TRUE
    /\ stTrace' = <<LogEv("INFO", "Stremio request received:"),
                    IF ~StartsWith(pathname, "/stream/")
                    THEN LogEv("WARN", "StremioHandler received an unexpected path:")
                    ELSE LogEv("WARN", "Stremio request handled before API keys were ready.")>>
    /\ stPc' = "ready"
    /\ effectPending' = TRUE
    /\ UNCHANGED <<storedKeys, pathname, response, stRun, stFault, genVars, cfgVars, logVars,
                   metaVars, tgVars>>

\* handleRequest on the render with the keys loaded, up to the first await
HandleRequest ==
    /\ effectPending
    /\ effectPending' = FALSE
    /\ \E streamMatch \in {StreamMatch(pathname)} :
       LET received   == stTrace \o <<LogEv("INFO", "Stremio request received:")>>
       IN
       IF ~StartsWith(pathname, "/stream/")
       THEN /\ stTrace' = received
                          \o <<LogEv("WARN", "StremioHandler received an unexpected path:")>>
            /\ stPc' = "done"
            /\ UNCHANGED <<response, stRun>>
       ELSE IF ~isReady
       THEN /\ stTrace' = received
                          \o <<LogEv("WARN", "Stremio request handled before API keys were ready.")>>
            /\ stPc' = "done"
            /\ UNCHANGED <<response, stRun>>
       ELSE IF ~areKeysSetup
       THEN /\ stTrace' = received
                          \o <<LogEv("ERROR", "API keys not configured. Please configure the addon.")>>
            /\ response' = createErrorStream("API keys not configured. Please configure the addon.")
            /\ stPc' = "done"
            /\ UNCHANGED stRun
       ELSE IF streamMatch # Null
       THEN /\ stTrace' = received
                          \o <<LogEv("INFO", "Processing stream request for type:"),
                               CallEv("metadata", "getMetadata")>>
            /\ stRun' = [type |-> streamMatch.type, imdbId |-> streamMatch.imdbId,
                         season |-> streamMatch.season, episode |-> streamMatch.episode,
                         metadata |-> Null, reviewPoints |-> Null, caught |-> Null]
            /\ stPc' = "awaitMetadata"
            /\ UNCHANGED response
       ELSE /\ stTrace' = received \o <<LogEv("WARN", "Invalid stream path received:")>>
            /\ response' = createErrorStream("Invalid request format.")
            /\ stPc' = "done"
            /\ UNCHANGED stRun
    /\ UNCHANGED <<pathname, stFault, keyVars, genVars, cfgVars, logVars, metaVars, tgVars>>

\* season ? parseInt(season) : undefined
OptionalInt(g) == IF g # Null /\ g.v # "" THEN Some(ParseInt(g.v)) ELSE Null

\* the await of getMetadata settles, and handleRequest runs on to the next await
MetadataSettles ==
    /\ stPc = "awaitMetadata"
    /\ \E f \in FindOutcomes, ep \in EpisodeOutcomes :
         LET settled == getMetadata([type |-> stRun.type, imdbId |-> stRun.imdbId,
                                     season |-> OptionalInt(stRun.season),
                                     episode |-> OptionalInt(stRun.episode)],
                                    [find |-> f, episode |-> ep])
         IN
         IF ~settled.ok
         THEN /\ StreamCatch(settled.error)
              /\ stTrace' = stTrace \o settled.trace
                            \o <<LogEv("ERROR", "Error processing stream request for")>>
         ELSE IF settled.value = Null
         THEN /\ response' = createErrorStream("Metadata not found for this item.")
              /\ stPc' = "done"
              /\ stTrace' = stTrace \o settled.trace
                            \o <<LogEv("WARN", "Metadata not found for imdbId:")>>
              /\ UNCHANGED <<stRun, stFault>>
         ELSE /\ stRun' = [stRun EXCEPT !.metadata = settled.value]
              /\ stPc' = "awaitReview"
              /\ stTrace' = stTrace \o settled.trace
                            \o <<LogEv("DEBUG", "Successfully fetched metadata for:"),
                                 CallEv("gemini", "generateReview")>>
              /\ UNCHANGED <<response, stFault>>
    /\ UNCHANGED <<pathname, effectPending, keyVars, genVars, cfgVars, logVars, metaVars, tgVars>>

\* the await of generateReview settles, and handleRequest runs to its end
ReviewSettles ==
    /\ stPc = "awaitReview"
    /\ \E ai \in AiBehaviours(ReviewTexts) :
       \E settled \in {generateReview(stRun.metadata, keys.gemini, ai)} :
         IF ~settled.ok
         THEN /\ StreamCatch(settled.error)
              /\ stTrace' = stTrace \o settled.trace
                            \o <<LogEv("ERROR", "Error processing stream request for")>>
         ELSE IF Len(settled.value) = 0     \* !reviewPoints || reviewPoints.length === 0
         THEN /\ response' = createErrorStream("Could not generate review for this item.")
              /\ stRun' = [stRun EXCEPT !.reviewPoints = Some(settled.value)]
              /\ stPc' = "done"
              /\ stTrace' = stTrace \o settled.trace
                            \o <<LogEv("WARN", "Gemini returned no review points for:")>>
              /\ UNCHANGED stFault
         ELSE /\ response' = ReviewStream(settled.value,
                                          InfoHash(stRun.imdbId, stRun.season, stRun.episode))
              /\ stRun' = [stRun EXCEPT !.reviewPoints = Some(settled.value)]
              /\ stPc' = "done"
              /\ stTrace' = stTrace \o settled.trace
                            \o <<LogEv("INFO", "Successfully generated review for:")>>
              /\ UNCHANGED stFault
    /\ UNCHANGED <<pathname, effectPending, keyVars, genVars, cfgVars, logVars, metaVars, tgVars>>

(***************************************************************************)
(* TestGround.tsx.  The component state that the handlers set is gathered  *)
(* in a record (TgUi); a handler runs from an event to its first await     *)
(* and from the settling of one await to the next, with the values of the  *)
(* render in which it was started kept in tgFlow.                          *)
(***************************************************************************)
TgUi ==
    [isLoading |-> isLoading, error |-> error, review |-> review,
     searchResults |-> searchResults, selectedSeries |-> selectedSeries,
     selectedSeason |-> selectedSeason, selectedEpisode |-> selectedEpisode]

\* the state of the component, the handler in flight and its trace after a step
TgSet(ui, flow, trace) ==
    /\ isLoading' = ui.isLoading
    /\ error' = ui.error
    /\ review' = ui.review
    /\ searchResults' = ui.searchResults
    /\ selectedSeries' = ui.selectedSeries
    /\ selectedSeason' = ui.selectedSeason
    /\ selectedEpisode' = ui.selectedEpisode
    /\ tgFlow' = flow
    /\ tgTrace' = trace

\* a step of a handler in which nothing is thrown out of the handler
TgStep(ui, flow, trace) == TgSet(ui, flow, trace) /\ UNCHANGED tgFault

\* a renderContent without its loading branch
TgContentWhileLoading ==
    IF error # Null /\ error.v # "" THEN "error"
    ELSE IF review # Null THEN "review"
    ELSE IF selectedSeries # Null THEN "series"
    ELSE IF searchResults # Null THEN "results"
    ELSE "empty"

\* the branches of renderContent, in the order they are tested
TgContent ==
    IF isLoading THEN "loading"
    ELSE IF error # Null /\ error.v # "" THEN "error"
    ELSE IF review # Null THEN "review"
    ELSE IF selectedSeries # Null THEN "series"
    ELSE IF searchResults # Null THEN "results"
    ELSE "empty"

\* the form rendered whatever the path: App without the /stream/ branch
TgRenderedOnAnyPath == isReady /\ areKeysSetup

\* the form and the content are rendered only on a page of the application
\* (not on a /stream/ path) and with the keys loaded and set up
TgRendered == ~StartsWith(pathname, "/stream/") /\ isReady /\ areKeysSetup

\* handleGenericError: every value thrown in the model is an Error
handleGenericError(ui, err) == [ui EXCEPT !.error = Some(err.message)]

GenericErrorTrace == <<LogEv("ERROR", "TestGround Error:")>>

\* a finally block that leaves the loading flag set
TgFinallyStillLoading(ui) == ui

\* the finally block of a handler
TgFinally(ui) == [ui EXCEPT !.isLoading = FALSE]

TgDone(flow) == [flow EXCEPT !.pc = "done"]

\* mutant: a handler without its catch block: the finally block runs and the
\* error leaves the handler
TgUncaught(ui, flow, trace, err) ==
    TgSet(TgFinally(ui), TgDone(flow), trace) /\ tgFault' = TRUE

\* a handler ends in its catch block
TgCaught(ui, flow, trace, err) ==
    TgStep(TgFinally(handleGenericError(ui, err)), TgDone(flow), trace \o GenericErrorTrace)

\* /^(tt\d{7,})$/
IsImdbId(s) ==
    /\ StartsWith(s, "tt")
    /\ Len(s) >= 9
    /\ \A i \in 3..Len(s) : Ch(s, i) \in Digits

\* performReviewGeneration up to its await
TgStartReview(ui, flow, trace, metadata) ==
    TgStep(ui, [flow EXCEPT !.pc = "awaitReview", !.metadata = Some(metadata)],
           trace \o <<LogEv("INFO", "TestGround: Generating review for"),
                      CallEv("gemini", "generateReview")>>)

\* a handleSelectResult that leaves the candidate list set
TgStartSelectKeepingTheList(ui, flow, trace, metadata) ==
    LET selecting == [ui EXCEPT !.isLoading = TRUE, !.error = Null, !.review = Null]
        selected  == trace \o <<LogEv("INFO", "TestGround: User selected result:")>>
        chosen    == [flow EXCEPT !.metadata = Some(metadata), !.selected = TRUE]
    IN
    IF metadata.type = "movie"
    THEN TgStartReview(selecting, chosen, selected, metadata)
    ELSE IF metadata.tmdbId = 0
    THEN TgCaught(selecting, chosen, selected,
                  JsError("Error", "Series is missing a TMDB ID for detail lookup."))
    ELSE TgStep(selecting, [chosen EXCEPT !.pc = "awaitSeries"],
                selected \o <<LogEv("DEBUG", "TestGround: Fetching details for series:"),
                              CallEv("metadata", "getSeriesDetails")>>)

\* a handleSelectResult that generates a review for whatever was selected
TgStartSelectReviewingAnyType(ui, flow, trace, metadata) ==
    TgStartReview([ui EXCEPT !.searchResults = Null, !.isLoading = TRUE,
                             !.error = Null, !.review = Null],
                  [flow EXCEPT !.metadata = Some(metadata), !.selected = TRUE],
                  trace \o <<LogEv("INFO", "TestGround: User selected result:")>>,
                  metadata)

\* handleSelectResult up to its first await
TgStartSelect(ui, flow, trace, metadata) ==
    LET selecting == [ui EXCEPT !.searchResults = Null, !.isLoading = TRUE,
                                !.error = Null, !.review = Null]
        selected  == trace \o <<LogEv("INFO", "TestGround: User selected result:")>>
        chosen    == [flow EXCEPT !.metadata = Some(metadata), !.selected = TRUE]
    IN
    IF metadata.type = "movie"
    THEN TgStartReview(selecting, chosen, selected, metadata)
    ELSE IF metadata.tmdbId = 0
    THEN TgCaught(selecting, chosen, selected,
                  JsError("Error", "Series is missing a TMDB ID for detail lookup."))
    ELSE TgStep(selecting, [chosen EXCEPT !.pc = "awaitSeries"],
                selected \o <<LogEv("DEBUG", "TestGround: Fetching details for series:"),
                              CallEv("metadata", "getSeriesDetails")>>)

\* mutant: one candidate is offered for selection like several
SearchBranchWithoutAutoSelect(results) ==
    IF Len(results) = 0 THEN "none" ELSE "many"

\* mutant: the first of several candidates is taken without asking
SearchBranchTakingTheFirst(results) ==
    IF Len(results) = 0 THEN "none" ELSE "single"

\* the branch of handleSubmit on the number of results
SearchBranch(results) ==
    IF Len(results) = 0 THEN "none"
    ELSE IF Len(results) = 1 THEN "single"
    ELSE "many"

Queries == {"", " q ", "tt0133093", "tt1"}

\* what the two fetches of getMovieDetails do in a search of the component
TgMovieEnvs ==
    {[details |-> FetchResponse(200, TRUE, DetailsBody),
      credits |-> FetchResponse(200, TRUE, CreditsBody)],
     [details |-> FetchResponse(500, TRUE, ErrorBody),
      credits |-> FetchResponse(200, TRUE, CreditsBody)],
     [details |-> FetchResponse(200, TRUE, DetailsBody), credits |-> FetchRejected]}

TgTexts == {EightLines, "[\"p1\",\"p2\"]", "[]", "no array here"}

TgInit ==
    /\ storedKeys \in StoredItems
    /\ keys = DefaultKeys
    /\ isReady = FALSE
    /\ query = ""
    /\ type = "movie"
    /\ isLoading = FALSE
    /\ error = Null
    /\ review = Null
    /\ searchResults = Null
    /\ selectedSeries = Null
    /\ selectedSeason = ""
    /\ selectedEpisode = ""
    /\ tgFlow = Null
    /\ tgTrace = <<>>
    /\ tgFault = FALSE

\* the effect of useApiKeys on mount
TgMount ==
    /\ ~StartsWith(pathname, "/stream/")
    /\ ~isReady
    /\ keys' = LoadedKeys(storedKeys, keys)
    /\ isReady' = TRUE
    /\ UNCHANGED <<storedKeys, genVars, cfgVars, logVars, metaVars, stVars, tgVars>>

\* onChange of the query input
SetQuery ==
    /\ TgRendered
    /\ \E q \in Queries : query' = q
    /\ UNCHANGED <<type, isLoading, error, review, searchResults, selectedSeries,
                   selectedSeason, selectedEpisode, tgFlow, tgTrace, tgFault,
                   keyVars, genVars, cfgVars, logVars, metaVars, stVars>>

\* onChange of the type select
SetType ==
    /\ TgRendered
    /\ \E t \in MediaTypes : type' = t
    /\ UNCHANGED <<query, isLoading, error, review, searchResults, selectedSeries,
                   selectedSeason, selectedEpisode, tgFlow, tgTrace, tgFault,
                   keyVars, genVars, cfgVars, logVars, metaVars, stVars>>

TgFrame == UNCHANGED <<query, type, keyVars, genVars, cfgVars, logVars, metaVars, stVars>>

\* handleSubmit up to its first await (the submit button is disabled while
\* loading or with a blank query, which is also the guard of the handler)
SubmitStart ==
    /\ TgRendered
    /\ ~(Trim(query) = "" \/ isLoading)
    /\ LET trimmedQuery == Trim(query)
           ui   == [TgUi EXCEPT !.isLoading = TRUE, !.error = Null, !.review = Null,
                                !.searchResults = Null, !.selectedSeries = Null]
           flow == [handler |-> "handleSubmit", pc |-> "", type |-> type,
                    query |-> trimmedQuery, byId |-> IsImdbId(trimmedQuery),
                    found |-> Null, results |-> Null, metadata |-> Null,
                    selected |-> FALSE]
           started == <<LogEv("INFO", "TestGround: Search started for query")>>
       IN
       IF IsImdbId(trimmedQuery)
       THEN TgStep(ui, [flow EXCEPT !.pc = "awaitMetadata"],
                   started \o <<LogEv("DEBUG", "TestGround: Query is an IMDb ID:"),
                                CallEv("metadata", "getMetadata")>>)
       ELSE TgStep(ui, [flow EXCEPT !.pc = "awaitSearch"],
                   started \o <<LogEv("DEBUG", "TestGround: Query is a title search:"),
                                CallEv("metadata", "searchByTitle")>>)
    /\ TgFrame

\* the await of getMetadata in handleSubmit settles
SubmitMetadataSettles ==
    /\ tgFlow # Null
    /\ tgFlow.handler = "handleSubmit"
    /\ tgFlow.pc = "awaitMetadata"
    /\ \E f \in FindOutcomes :
         LET settled == getMetadata([type |-> tgFlow.type, imdbId |-> tgFlow.query,
                                     season |-> Null, episode |-> Null],
                                    [find |-> f, episode |-> FetchRejected])
             trace   == tgTrace \o settled.trace
         IN
         IF ~settled.ok THEN TgCaught(TgUi, tgFlow, trace, settled.error)
         ELSE IF settled.value = Null
         THEN TgStep(TgFinally([TgUi EXCEPT !.error = Some("Could not find a " \o tgFlow.type
                                                           \o " with IMDb ID: " \o tgFlow.query)]),
                     TgDone(tgFlow), trace)
         ELSE IF tgFlow.type = "movie"
         THEN TgStartReview(TgUi, tgFlow, trace, settled.value)
         ELSE TgStartSelect(TgUi, tgFlow, trace, settled.value)
    /\ TgFrame

\* the await of searchByTitle in handleSubmit settles
SubmitSearchSettles ==
    /\ tgFlow # Null
    /\ tgFlow.handler = "handleSubmit"
    /\ tgFlow.pc = "awaitSearch"
    /\ \E so \in SearchOutcomes(tgFlow.type) :
       \E ms \in [1..(IF tgFlow.type = "movie" THEN ResultCount(so) ELSE 0) -> TgMovieEnvs] :
         LET settled == searchByTitle([title |-> tgFlow.query, type |-> tgFlow.type],
                                      [search |-> so, movies |-> ms])
             trace   == tgTrace \o settled.trace
             flow    == [tgFlow EXCEPT !.found = Some(so)]
         IN
         IF ~settled.ok THEN TgCaught(TgUi, flow, trace, settled.error)
         ELSE LET results  == settled.value
                  searched == [flow EXCEPT !.results = Some(results)]
              IN
              IF SearchBranch(results) = "none"
              THEN TgStep(TgFinally([TgUi EXCEPT !.error =
                              Some("Could not find any matching results. Try being more specific!")]),
                          TgDone(searched), trace)
              ELSE IF SearchBranch(results) = "single"
              THEN TgStartSelect(TgUi, searched,
                                 trace \o <<LogEv("DEBUG", "TestGround: Found single match, auto-selecting:")>>,
                                 results[1])
              ELSE TgStep(TgFinally([TgUi EXCEPT !.searchResults = Some(results)]),
                          TgDone(searched),
                          trace \o <<LogEv("DEBUG", "TestGround: Found matches, showing selection.")>>)
    /\ TgFrame

\* onClick of a candidate of the list: handleSelectResult up to its first await
SelectResult ==
    /\ TgRendered
    /\ TgContent = "results"
    /\ \E i \in 1..Len(searchResults.v) :
         TgStartSelect(TgUi,
                       [handler |-> "handleSelectResult", pc |-> "", type |-> type,
                        query |-> "", byId |-> FALSE, found |-> Null, results |-> Null,
                        metadata |-> Null, selected |-> FALSE],
                       <<>>, searchResults.v[i])
    /\ TgFrame

\* a merge in which the identifier of the selected record stands when the
\* details carry none
MergeDetailsKeepingTheRecordId(metadata, details) ==
    [k \in DOMAIN metadata \cup {"seasons", "imdbId"} |->
        IF k = "seasons" THEN details.seasons
        ELSE IF k = "imdbId"
        THEN IF details.imdbId = Null /\ "imdbId" \in DOMAIN metadata
             THEN Some(metadata.imdbId)
             ELSE details.imdbId
        ELSE metadata[k]]

\* { ...metadata, ...details }: details always has the properties seasons and
\* imdbId (undefined as Null), which replace those of metadata
MergeDetails(metadata, details) ==
    [k \in DOMAIN metadata \cup {"seasons", "imdbId"} |->
        IF k = "seasons" THEN details.seasons
        ELSE IF k = "imdbId" THEN details.imdbId
        ELSE metadata[k]]

\* the await of getSeriesDetails in handleSelectResult settles
SeriesSettles ==
    /\ tgFlow # Null
    /\ tgFlow.pc = "awaitSeries"
    /\ \E so \in SeriesOutcomes :
         LET settled == getSeriesDetails(tgFlow.metadata.v.tmdbId, [series |-> so])
             trace   == tgTrace \o settled.trace
         IN
         IF ~settled.ok THEN TgCaught(TgUi, tgFlow, trace, settled.error)
         ELSE TgStep(TgFinally([TgUi EXCEPT
                                   !.selectedSeries = Some(MergeDetails(tgFlow.metadata.v,
                                                                        settled.value)),
                                   !.selectedSeason = "", !.selectedEpisode = ""]),
                     TgDone(tgFlow), trace)
    /\ TgFrame

\* the await of generateReview in performReviewGeneration settles, and the
\* handler that called it runs to its end
TgReviewSettles ==
    /\ tgFlow # Null
    /\ tgFlow.pc = "awaitReview"
    /\ \E ai \in AiBehaviours(TgTexts) :
       \E settled \in {generateReview(tgFlow.metadata.v, keys.gemini, ai)} :
         LET trace == tgTrace \o settled.trace IN
         IF ~settled.ok THEN TgCaught(TgUi, tgFlow, trace, settled.error)
         ELSE IF Len(settled.value) = 0
         THEN TgStep(TgFinally([TgUi EXCEPT !.error =
                 Some("Failed to generate a review. The AI might be busy or the content is too new.")]),
                     TgDone(tgFlow),
                     trace \o <<LogEv("WARN", "TestGround: Failed to generate a review.")>>)
         ELSE TgStep(TgFinally([TgUi EXCEPT !.review = Some(settled.value)]),
                     TgDone(tgFlow),
                     trace \o <<LogEv("INFO", "TestGround: Successfully generated review for")>>)
    /\ TgFrame

\* selectedSeries.seasons.find(s => s.season_number === parseInt(selectedSeason))
currentSeasonData ==
    IF selectedSeries = Null
    THEN {}
    ELSE {selectedSeries.v.seasons[i] : i \in
             {j \in 1..Len(selectedSeries.v.seasons) :
                 /\ selectedSeries.v.seasons[j].season_number = ParseInt(selectedSeason)
                 /\ \A k \in 1..(j - 1) :
                      selectedSeries.v.seasons[k].season_number # ParseInt(selectedSeason)}}

\* onChange of the season select: handleSeasonChange
SeasonChange ==
    /\ TgRendered
    /\ TgContent = "series"
    /\ \E i \in 1..Len(selectedSeries.v.seasons) :
         TgStep([TgUi EXCEPT !.selectedSeason = ToStr(selectedSeries.v.seasons[i].season_number),
                             !.selectedEpisode = ""],
                [handler |-> "handleSeasonChange", pc |-> "done"],
                <<LogEv("DEBUG", "TestGround: Season changed to")>>)
    /\ TgFrame

\* onChange of the episode select (disabled without a season)
EpisodeChange ==
    /\ TgRendered
    /\ TgContent = "series"
    /\ selectedSeason # ""
    /\ \E season \in currentSeasonData : \E epNum \in 1..season.episode_count :
         TgStep([TgUi EXCEPT !.selectedEpisode = ToStr(epNum)], tgFlow, tgTrace)
    /\ TgFrame

\* a "Back to Search" that goes back to the season selection only
BackToSeasonSelection ==
    /\ TgRendered
    /\ TgContent = "series"
    /\ TgStep([TgUi EXCEPT !.selectedSeason = "", !.selectedEpisode = ""],
              [handler |-> "backToSearch", pc |-> "done"],
              <<LogEv("DEBUG", "TestGround: User returned to search results.")>>)
    /\ TgFrame

\* onClick of "Back to Search"
BackToSearch ==
    /\ TgRendered
    /\ TgContent = "series"
    /\ TgStep([TgUi EXCEPT !.selectedSeries = Null],
              [handler |-> "backToSearch", pc |-> "done"],
              <<LogEv("DEBUG", "TestGround: User returned to search results.")>>)
    /\ TgFrame

\* onClick of "Generate Episode Review" (disabled without an episode):
\* handleEpisodeReview up to its await
EpisodeReviewStart ==
    /\ TgRendered
    /\ TgContent = "series"
    /\ selectedEpisode # ""
    /\ ~(selectedSeries = Null \/ selectedSeason = "" \/ selectedEpisode = "")
    /\ TgStep([TgUi EXCEPT !.isLoading = TRUE, !.error = Null, !.review = Null],
              [handler |-> "handleEpisodeReview", pc |-> "awaitEpisode", type |-> "series",
               query |-> OrEmpty(selectedSeries.v.imdbId), byId |-> FALSE, found |-> Null,
               results |-> Null, metadata |-> Null, selected |-> FALSE,
               season |-> ParseInt(selectedSeason), episode |-> ParseInt(selectedEpisode)],
              <<LogEv("INFO", "TestGround: Generating review for episode"),
                CallEv("metadata", "getMetadata")>>)
    /\ TgFrame

\* the await of getMetadata in handleEpisodeReview settles
EpisodeMetadataSettles ==
    /\ tgFlow # Null
    /\ tgFlow.pc = "awaitEpisode"
    /\ \E f \in FindOutcomes, ep \in EpisodeOutcomes :
         LET settled == getMetadata([type |-> "series", imdbId |-> tgFlow.query,
                                     season |-> Some(tgFlow.season),
                                     episode |-> Some(tgFlow.episode)],
                                    [find |-> f, episode |-> ep])
             trace   == tgTrace \o settled.trace
         IN
         IF ~settled.ok THEN TgCaught(TgUi, tgFlow, trace, settled.error)
         ELSE IF settled.value = Null
         THEN TgCaught(TgUi, tgFlow, trace,
                       JsError("Error", "Could not fetch metadata for the selected episode."))
         ELSE TgStartReview(TgUi, tgFlow, trace, settled.value)
    /\ TgFrame

(***************************************************************************)
(* ConfigurePage.tsx.  A key file is what JSON.parse makes of its text: a  *)
(* SyntaxError, or a value [t |-> "null" | "num" | "arr"] or               *)
(* [t |-> "obj", props] whose properties are again values                  *)
(* ([t |-> "str", s] for a string).                                        *)
(***************************************************************************)
KeyFields == {"tmdb", "tvdb", "gemini"}

\* testResults = {}
NoResults == [k \in KeyFields |-> "undefined"]

FormFields == [tmdb |-> tmdbKey, tvdb |-> tvdbKey, gemini |-> geminiKey]

SetFormFields(f) ==
    /\ tmdbKey' = f.tmdb
    /\ tvdbKey' = f.tvdb
    /\ geminiKey' = f.gemini

\* keys.tmdb || '' for each field (the effect on [isReady, keys])
FieldsOfKeys(k) == [f \in KeyFields |-> k[f]]

\* typeof importedKeys.name
TypeOfProp(val, name) ==
    IF val.t # "obj" \/ name \notin DOMAIN val.props THEN "undefined"
    ELSE CASE val.props[name].t = "str" -> "string"
           [] val.props[name].t = "num" -> "number"
           [] OTHER -> "object"

\* the test of handleFileChange on the parsed file
IsValidKeyFile(importedKeys) ==
    /\ TypeOfProp(importedKeys, "tmdb") = "string"
    /\ TypeOfProp(importedKeys, "tvdb") = "string"
    /\ TypeOfProp(importedKeys, "gemini") = "string"

\* an accepted import that leaves the test results as they are
AcceptImportKeepingResults(importedKeys) ==
    /\ SetFormFields([f \in KeyFields |-> importedKeys.props[f].s])
    /\ UNCHANGED <<testResults, alerted>>

\* the accepting branch of handleFileChange
AcceptImport(importedKeys) ==
    /\ SetFormFields([f \in KeyFields |-> importedKeys.props[f].s])
    /\ testResults' = NoResults
    /\ UNCHANGED alerted

\* reader.onload of handleFileChange for one file
ImportOf(file) ==
    /\ isReady
    /\ cfgOps < MaxCfgOps
    /\ cfgOps' = cfgOps + 1
    /\ IF ~file.parsable \/ file.value.t = "null"
          \* JSON.parse throws, or reading a property of null throws
       THEN /\ alerted' = Some("Could not read the key file. Please ensure it is a valid JSON file.")
            /\ UNCHANGED <<tmdbKey, tvdbKey, geminiKey, testResults>>
       ELSE IF IsValidKeyFile(file.value)
       THEN AcceptImport(file.value)
       ELSE /\ alerted' = Some("Invalid key file format.")
            /\ UNCHANGED <<tmdbKey, tvdbKey, geminiKey, testResults>>
    /\ UNCHANGED <<isSavingAndTesting, showSuccess, cfgRun, testedKeys,
                   keyVars, genVars, metaVars, stVars, tgVars, logVars>>

StrVal(s) == [t |-> "str", s |-> s]
NumVal == [t |-> "num"]
NullVal == [t |-> "null"]
ObjVal(props) == [t |-> "obj", props |-> props]

\* what a property of a key file can be
PropValues == {StrVal("i1"), NumVal}

\* the files: not parsable, no object, an object with any of the three fields
\* missing, a string or a number, with a null field, with a further field
KeyFiles ==
    {[parsable |-> FALSE, value |-> NullVal]}
    \cup {[parsable |-> TRUE, value |-> v] : v \in {NullVal, NumVal, [t |-> "arr"]}}
    \cup {[parsable |-> TRUE, value |-> ObjVal(p)] :
             p \in UNION {[d -> PropValues] : d \in SUBSET KeyFields}}
    \cup {[parsable |-> TRUE,
           value |-> ObjVal([tmdb |-> StrVal("i1"), tvdb |-> NullVal, gemini |-> StrVal("i1")])],
          [parsable |-> TRUE,
           value |-> ObjVal([tmdb |-> StrVal(""), tvdb |-> StrVal("i1"), gemini |-> StrVal("i1"),
                             note |-> StrVal("n")])]}


\* the inputs typed in a field
KeyInputs == {"", "a", " b "}

CfgInit ==
    /\ storedKeys \in StoredItems
    /\ keys = DefaultKeys
    /\ isReady = FALSE
    /\ tmdbKey = "" /\ tvdbKey = "" /\ geminiKey = ""
    /\ testResults = NoResults
    /\ isSavingAndTesting = FALSE
    /\ showSuccess = FALSE
    /\ cfgRun = Null
    /\ alerted = Null
    /\ testedKeys = [f \in KeyFields |-> Null]
    /\ cfgOps = 0

\* the effect of useApiKeys on mount and, on the render with the keys loaded,
\* the effect on [isReady, keys]
CfgMount ==
    /\ ~isReady
    /\ keys' = LoadedKeys(storedKeys, keys)
    /\ isReady' = TRUE
    /\ SetFormFields(FieldsOfKeys(LoadedKeys(storedKeys, keys)))
    /\ UNCHANGED <<storedKeys, testResults, isSavingAndTesting, showSuccess, cfgRun,
                   alerted, testedKeys, cfgOps, genVars, metaVars, stVars, tgVars, logVars>>

\* onChange of a key input
EditKey ==
    /\ isReady
    /\ cfgOps < MaxCfgOps
    /\ cfgOps' = cfgOps + 1
    /\ \E f \in KeyFields, v \in KeyInputs :
         /\ SetFormFields([FormFields EXCEPT ![f] = v])
         /\ testResults' = [testResults EXCEPT ![f] = "undefined"]
    /\ UNCHANGED <<isSavingAndTesting, showSuccess, cfgRun, alerted, testedKeys,
                   keyVars, genVars, metaVars, stVars, tgVars, logVars>>

\* handleFileChange and the onload of its reader
ImportFile == \E file \in KeyFiles : ImportOf(file)

\* handleSaveAndTest up to its await (the submit button is disabled while
\* isSavingAndTesting)
SaveAndTestStart ==
    /\ isReady
    /\ ~isSavingAndTesting
    /\ cfgOps < MaxCfgOps
    /\ cfgOps' = cfgOps + 1
    /\ isSavingAndTesting' = TRUE
    /\ testResults' = NoResults
    /\ showSuccess' = FALSE
    /\ cfgRun' = Some(FormFields)
    /\ UNCHANGED <<tmdbKey, tvdbKey, geminiKey, alerted, testedKeys,
                   keyVars, genVars, metaVars, stVars, tgVars, logVars>>

\* testTmdbKey / testTvdbKey / testGeminiKey: false for an empty key, otherwise
\* what the service answers
KeyTestOutcomes(apiKey) == IF Trim(apiKey) = "" THEN {FALSE} ELSE BOOLEAN

\* the three tests settle and handleSaveAndTest runs to its end; setItem says
\* whether localStorage.setItem returns (it can throw)
SaveAndTestSettles ==
    /\ cfgRun # Null
    /\ LET tested == [f \in KeyFields |-> Trim(cfgRun.v[f])] IN
       \E tmdbValid \in KeyTestOutcomes(tested.tmdb),
          tvdbValid \in KeyTestOutcomes(tested.tvdb),
          geminiValid \in KeyTestOutcomes(tested.gemini),
          setItem \in BOOLEAN :
         /\ testResults' = [tmdb   |-> IF tmdbValid THEN "valid" ELSE "invalid",
                            tvdb   |-> IF tvdbValid THEN "valid" ELSE "invalid",
                            gemini |-> IF geminiValid THEN "valid" ELSE "invalid"]
         /\ testedKeys' = [f \in KeyFields |-> Some(tested[f])]
         /\ IF tmdbValid /\ tvdbValid /\ geminiValid /\ setItem
            THEN /\ storedKeys' = Some(tested)
                 /\ keys' = tested
                 /\ SetFormFields(FieldsOfKeys(tested))
                 /\ showSuccess' = TRUE
            ELSE UNCHANGED <<storedKeys, keys, tmdbKey, tvdbKey, geminiKey, showSuccess>>
    /\ isSavingAndTesting' = FALSE
    /\ cfgRun' = Null
    /\ UNCHANGED <<isReady, alerted, cfgOps, genVars, metaVars, stVars, tgVars, logVars>>

\* setTimeout(() => setShowSuccess(false), 3000)
HideSuccess ==
    /\ showSuccess
    /\ showSuccess' = FALSE
    /\ UNCHANGED <<tmdbKey, tvdbKey, geminiKey, testResults, isSavingAndTesting, cfgRun,
                   alerted, testedKeys, cfgOps, keyVars, genVars, metaVars, stVars, tgVars, logVars>>

(***************************************************************************)
(* LoggingService: the in-memory sink behind loggingService.               *)
(* logs is the private array; logged (everything logged since the last     *)
(* clear) and logCount (entries logged in the session) are history         *)
(* variables.                                                              *)
(***************************************************************************)
maxLogSize == 200

LogLevels == <<"INFO", "DEBUG", "WARN", "ERROR">>

\* the entry a call builds: new Date() is the rank of the call in the session
NewEntry(level) == [timestamp |-> logCount + 1, level |-> level]

\* Array.prototype.slice(start) for 0 <= start <= length
SliceFrom(a, start) == SubSeq(a, start + 1, Len(a))

\* a sink that prunes by keeping the first maxLogSize entries
logKeepingOldest(level) ==
    /\ logCount < MaxLogCalls
    /\ LET pushed == Append(logs, NewEntry(level)) IN
       logs' = IF Len(pushed) > maxLogSize
               THEN SubSeq(pushed, 1, maxLogSize)
               ELSE pushed
    /\ logged' = Append(logged, NewEntry(level))
    /\ logCount' = logCount + 1

log(level) ==
    /\ logCount < MaxLogCalls
    /\ LET pushed == Append(logs, NewEntry(level)) IN
       logs' = IF Len(pushed) > maxLogSize
               THEN SliceFrom(pushed, Len(pushed) - maxLogSize)
               ELSE pushed
    /\ logged' = Append(logged, NewEntry(level))
    /\ logCount' = logCount + 1

\* the level of the n-th call of a session: callers take the levels in turn
LevelOfCall(n) == LogLevels[(n % 4) + 1]

info ==
    /\ LevelOfCall(logCount) = "INFO" /\ log("INFO")
    /\ UNCHANGED <<genVars, metaVars, keyVars, stVars, tgVars, cfgVars>>

debug ==
    /\ LevelOfCall(logCount) = "DEBUG" /\ log("DEBUG")
    /\ UNCHANGED <<genVars, metaVars, keyVars, stVars, tgVars, cfgVars>>

warn ==
    /\ LevelOfCall(logCount) = "WARN" /\ log("WARN")
    /\ UNCHANGED <<genVars, metaVars, keyVars, stVars, tgVars, cfgVars>>

error_ ==
    /\ LevelOfCall(logCount) = "ERROR" /\ log("ERROR")
    /\ UNCHANGED <<genVars, metaVars, keyVars, stVars, tgVars, cfgVars>>

clearLogs ==
    /\ logs' = <<>>
    /\ logged' = <<>>
    /\ UNCHANGED <<logCount, genVars, metaVars, keyVars, stVars, tgVars, cfgVars>>

\* getLogs(): a copy of the array
getLogs == logs


(***************************************************************************)
(* The components at rest (a specification of one component keeps the     *)
(* others so).                                                             *)
(***************************************************************************)
MetaIdle == metaCall = Null /\ metaResult = Null

KeysIdle ==
    /\ storedKeys = Null
    /\ keys = DefaultKeys
    /\ isReady = FALSE

StIdle ==
    /\ pathname = ""
    /\ response = Null
    /\ stPc = "idle"
    /\ stRun = Null
    /\ effectPending = FALSE
    /\ stTrace = <<>>
    /\ stFault = FALSE

TgIdle ==
    /\ query = ""
    /\ type = "movie"
    /\ isLoading = FALSE
    /\ error = Null
    /\ review = Null
    /\ searchResults = Null
    /\ selectedSeries = Null
    /\ selectedSeason = ""
    /\ selectedEpisode = ""
    /\ tgFlow = Null
    /\ tgTrace = <<>>
    /\ tgFault = FALSE

CfgIdle ==
    /\ tmdbKey = "" /\ tvdbKey = "" /\ geminiKey = ""
    /\ testResults = NoResults
    /\ isSavingAndTesting = FALSE
    /\ showSuccess = FALSE
    /\ cfgRun = Null
    /\ alerted = Null
    /\ testedKeys = [f \in KeyFields |-> Null]
    /\ cfgOps = 0

LogIdle == logs = <<>> /\ logged = <<>> /\ logCount = 0

GenNext == GenerateReviewCall \/ ExtractJsonArrayCall

InitGen == GenInit /\ MetaIdle /\ KeysIdle /\ StIdle /\ TgIdle /\ CfgIdle /\ LogIdle

SpecGen == InitGen /\ [][GenNext]_vars

MetaNext == GetMetadataCall \/ SearchByTitleCall \/ GetSeriesDetailsCall

InitMeta == MetaInit /\ GenIdle /\ KeysIdle /\ StIdle /\ TgIdle /\ CfgIdle /\ LogIdle

SpecMeta == InitMeta /\ [][MetaNext]_vars

StremioNext == Mount \/ HandleRequest \/ MetadataSettles \/ ReviewSettles

InitStremio == StreamInit /\ GenIdle /\ MetaIdle /\ TgIdle /\ CfgIdle /\ LogIdle

SpecStremio == InitStremio /\ [][StremioNext]_vars

TgNext ==
    \/ TgMount \/ SetQuery \/ SetType \/ SubmitStart \/ SubmitMetadataSettles
    \/ SubmitSearchSettles \/ SelectResult \/ SeriesSettles \/ TgReviewSettles
    \/ SeasonChange \/ EpisodeChange \/ BackToSearch \/ EpisodeReviewStart
    \/ EpisodeMetadataSettles

InitTG == TgInit /\ GenIdle /\ MetaIdle /\ StIdle /\ CfgIdle /\ LogIdle

SpecTG == InitTG /\ [][TgNext]_vars

\* App.tsx: a /stream/ path mounts StremioHandler, any other path the pages
AppNext == StremioNext \/ TgNext

InitApp ==
    /\ pathname \in StreamPaths \cup {""}
    /\ stPc = IF StartsWith(pathname, "/stream/") THEN "mount" ELSE "idle"
    /\ storedKeys \in StoredItems
    /\ keys = DefaultKeys
    /\ isReady = FALSE
    /\ response = Null
    /\ stRun = Null
    /\ effectPending = FALSE
    /\ stTrace = <<>>
    /\ stFault = FALSE
    /\ TgIdle
    /\ GenIdle
    /\ MetaIdle
    /\ CfgIdle
    /\ LogIdle

SpecApp == InitApp /\ [][AppNext]_vars

\* The scheduler runs an effect that is due and delivers the settlement of an
\* awaited call: weak fairness of each such step.  HandleRequest, ReviewSettles
\* and TgReviewSettles are enabled exactly when their guard below holds, and
\* each of them leaves its guard; on the behaviours of AppNext WF_vars(A),
\* which is []<>~ENABLED <<A>>_vars \/ []<><<A>>_vars, then says that the guard
\* does not hold for ever, and it is stated so.
HandleRequestDue == effectPending

ReviewDue == stPc = "awaitReview"

TgReviewDue == tgFlow # Null /\ tgFlow.pc = "awaitReview"

\* the steps whose ENABLED is evaluated as it stands; at most one of them is
\* enabled in a state, a flow being at one position
DueSteps ==
    \/ Mount \/ MetadataSettles \/ TgMount \/ SubmitMetadataSettles
    \/ SubmitSearchSettles \/ SeriesSettles \/ EpisodeMetadataSettles

AppFairness ==
    /\ WF_vars(DueSteps)
    /\ []<>~HandleRequestDue
    /\ []<>~ReviewDue
    /\ []<>~TgReviewDue

SpecAppLive == InitApp /\ [][AppNext]_vars /\ AppFairness

ConfigNext ==
    CfgMount \/ EditKey \/ ImportFile \/ SaveAndTestStart \/ SaveAndTestSettles
    \/ HideSuccess

InitConfig == CfgInit /\ GenIdle /\ MetaIdle /\ StIdle /\ TgIdle /\ LogIdle

SpecConfig == InitConfig /\ [][ConfigNext]_vars

LogNext == info \/ debug \/ warn \/ error_ \/ clearLogs

InitLog == LogIdle /\ GenIdle /\ MetaIdle /\ KeysIdle /\ StIdle /\ TgIdle /\ CfgIdle

SpecLog == InitLog /\ [][LogNext]_vars

(***************************************************************************)
(* Claims about generateReview, under SpecGen.                             *)
(***************************************************************************)
GenDone == genResult # Null

\* number of elements of a returned array that are non-empty strings
RECURSIVE NonEmptyStrings(_)
NonEmptyStrings(items) ==
    IF Len(items) = 0 THEN 0
    ELSE (IF IsString(Head(items)) /\ Head(items).s # "" THEN 1 ELSE 0)
         + NonEmptyStrings(Tail(items))

\* C1 (as stated): a successful generateReview returns an array of strings only,
\* with at least 8 non-empty strings in it.
C1_AtLeastEightNonEmptyStrings ==
    (GenDone /\ genResult.ok) =>
        (EveryString(genResult.value) /\ NonEmptyStrings(genResult.value) >= 8)

\* C1 (amended): a successful generateReview returns an array whose elements are all
\* strings (of any number, empty strings included); every other call that reached
\* the model ends in a classified (ApiError) failure.
C1_SuccessIsArrayOfStrings ==
    GenDone =>
        IF genResult.ok
        THEN EveryString(genResult.value)
        ELSE genResult.error.isApiError

\* C1 witness: the model answered with an array that holds a non-string and the call
\* has failed with the Generic kind.
C1_Witness ==
    /\ GenDone
    /\ geminiApiKey # ""
    /\ ~aiResponse.threw /\ aiResponse.hasText /\ aiResponse.text = "[1]"
    /\ ~genResult.ok
    /\ KindOf(genResult.error) = "Generic"

\* C2: when the model call completes with an absent or empty candidate list,
\* generateReview throws the GeminiSafetyError raised in the try block, with its kind
\* (ContentBlocked) and its message unchanged by the catch block.
C2_NoCandidatesIsContentBlocked ==
    (GenDone /\ geminiApiKey # "" /\ ~aiResponse.threw /\ aiResponse.candidates <= 0) =>
        /\ ~genResult.ok
        /\ KindOf(genResult.error) = "ContentBlocked"
        /\ genResult.error
             = GeminiSafetyError("Review generation was blocked. The content might be sensitive.")

\* C2 witness: an empty candidate list, and the call has ended.
C2_Witness ==
    /\ GenDone
    /\ geminiApiKey # ""
    /\ ~aiResponse.threw /\ aiResponse.candidates = 0
    /\ ~genResult.ok

ExtractDone == extracted # Null

\* the text is, as a whole, a JSON array
IsJsonArrayText(text) == JSONParse(text).ok /\ IsArray(JSONParse(text).val)

\* C15: on a text that is exactly a JSON array extractJsonArray returns that
\* array, and text without brackets before the first '[' and after the last ']'
\* does not change what it returns.
C15_ExtractionIgnoresSurroundingText ==
    ExtractDone =>
        /\ extracted.clean.ok
        /\ extracted.wrapped.ok
        /\ IsJsonArrayText(extracted.text)
              => extracted.clean.value = Some(JSONParse(extracted.text).val.items)
        /\ extracted.wrapped.value = extracted.clean.value

\* C15 witness: the array of eight lines, found again behind an introduction
C15_Witness ==
    /\ ExtractDone
    /\ extracted.text = EightLines
    /\ extracted.noise.before = "Here is the review: "
    /\ extracted.clean.value # Null
    /\ Len(extracted.clean.value.v) = 8
    /\ extracted.wrapped.value = extracted.clean.value

\* no '[', no ']', or the last ']' before the first '['
NoBracketPair(text) ==
    \/ IndexOf(text, "[") = -1
    \/ LastIndexOf(text, "]") = -1
    \/ LastIndexOf(text, "]") < IndexOf(text, "[")

Bracketed(text) == Substring(text, IndexOf(text, "["), LastIndexOf(text, "]") + 1)

\* there is a bracketed substring and it does not parse as a JSON array
NotAnArray(text) == ~NoBracketPair(text) /\ ~IsJsonArrayText(Bracketed(text))

\* the bracketed substring is an array with an element that is not a string
SomeElementNotAString(text) ==
    /\ ~NoBracketPair(text)
    /\ IsJsonArrayText(Bracketed(text))
    /\ \E i \in 1..Len(JSONParse(Bracketed(text)).val.items) :
          JSONParse(Bracketed(text)).val.items[i].t # "str"

\* generateReview was called with a key and the model answered with a text
GenDoneWithText ==
    /\ GenDone
    /\ geminiApiKey # ""
    /\ ~aiResponse.threw
    /\ aiResponse.candidates > 0
    /\ aiResponse.hasText

InvalidOutputError == ApiError("Gemini did not return a valid array of strings.")

\* C16, as stated: without a bracket pair, with a bracketed substring that is no
\* JSON array, or with an element that is not a string, extractJsonArray returns
\* a validation failure (null) without throwing, and generateReview fails with
\* the Generic error "Gemini did not return a valid array of strings.".
C16_InvalidOutputFailsExtraction ==
    /\ (/\ ExtractDone
        /\ \/ NoBracketPair(extracted.text)
           \/ NotAnArray(extracted.text)
           \/ SomeElementNotAString(extracted.text))
          => (extracted.clean.ok /\ extracted.clean.value = Null)
    /\ (/\ GenDoneWithText
        /\ \/ NoBracketPair(Trim(aiResponse.text))
           \/ NotAnArray(Trim(aiResponse.text))
           \/ SomeElementNotAString(Trim(aiResponse.text)))
          => (~genResult.ok /\ genResult.error = InvalidOutputError)

\* C16, amended: extractJsonArray never throws; it returns null when the text has
\* no bracket pair or the bracketed substring is no JSON array, and the parsed
\* array itself when some element is not a string.  In all three cases
\* generateReview fails with the Generic error "Gemini did not return a valid
\* array of strings.".
C16_InvalidOutputFailsGenerateReview ==
    /\ ExtractDone
          => /\ extracted.clean.ok
             /\ (NoBracketPair(extracted.text) \/ NotAnArray(extracted.text))
                   => extracted.clean.value = Null
             /\ SomeElementNotAString(extracted.text)
                   => extracted.clean.value
                        = Some(JSONParse(Bracketed(extracted.text)).val.items)
    /\ (/\ GenDoneWithText
        /\ \/ NoBracketPair(Trim(aiResponse.text))
           \/ NotAnArray(Trim(aiResponse.text))
           \/ SomeElementNotAString(Trim(aiResponse.text)))
          => /\ ~genResult.ok
             /\ genResult.error = InvalidOutputError
             /\ KindOf(genResult.error) = "Generic"

\* C16 witness: an array with a number among its elements has failed generateReview
C16_Witness ==
    /\ GenDoneWithText
    /\ SomeElementNotAString(Trim(aiResponse.text))
    /\ Len(JSONParse(Bracketed(Trim(aiResponse.text))).val.items) = 8
    /\ ~genResult.ok
    /\ genResult.error = InvalidOutputError

\* what is thrown inside the try block of a call that failed past the key test
FaultInTry ==
    IF aiResponse.threw THEN aiResponse.fault
    ELSE IF aiResponse.candidates <= 0
    THEN GeminiSafetyError("Review generation was blocked. The content might be sensitive.")
    ELSE IF ~aiResponse.hasText
    THEN JsError("TypeError", "Cannot read properties of undefined (reading 'trim')")
    ELSE InvalidOutputError

\* the text of the fault contains the pattern, letter case ignored
FaultTextHas(fault, pattern) == Includes(ToLowerCase(ErrorToString(fault)), pattern)

\* C17: when something is thrown during or after the model invocation, the error
\* leaving generateReview is InvalidCredential if the text of the fault contains
\* 'api key not valid'; otherwise RateLimited if it contains 'quota' or 'rate
\* limit'; otherwise the fault itself if it is a classified error; otherwise
\* Generic.  The text is matched with letter case ignored.
C17_CatchClassifiesInPriorityOrder ==
    (GenDone /\ geminiApiKey # "" /\ ~genResult.ok) =>
        IF FaultTextHas(FaultInTry, "api key not valid")
        THEN /\ KindOf(genResult.error) = "InvalidCredential"
             /\ genResult.error = InvalidApiKeyError("Gemini")
        ELSE IF FaultTextHas(FaultInTry, "quota") \/ FaultTextHas(FaultInTry, "rate limit")
        THEN /\ KindOf(genResult.error) = "RateLimited"
             /\ genResult.error = RateLimitError("Gemini")
        ELSE IF KindOf(FaultInTry) \in {"ContentBlocked", "Generic"}
        THEN genResult.error = FaultInTry
        ELSE /\ KindOf(genResult.error) = "Generic"
             /\ genResult.error
                  = ApiError("An unexpected error occurred while generating the review.")

\* C17 witness: a fault naming both the key and the quota left as InvalidCredential
C17_Witness ==
    /\ GenDone
    /\ geminiApiKey # ""
    /\ aiResponse.threw
    /\ FaultTextHas(aiResponse.fault, "api key not valid")
    /\ FaultTextHas(aiResponse.fault, "quota")
    /\ ~genResult.ok
    /\ KindOf(genResult.error) = "InvalidCredential"


(***************************************************************************)
(* Claims about metadataService, under SpecMeta.                           *)
(***************************************************************************)
MetaDone == metaResult # Null

\* the identifier lookup answered, and holds no record of the requested kind
NoRecordOfKind(call) ==
    LET f == call.env.find
        list == IF call.params.type = "movie" THEN "movie_results" ELSE "tv_results"
    IN  /\ ~f.rejected
        /\ \/ f.status = 404
           \/ /\ ResponseOk(f) /\ f.decodable
              /\ HasProp(f.data, list)
              /\ Len(f.data[list]) = 0

\* C3: an identifier lookup whose identifier matches no catalog record of the
\* requested kind (a record of the other kind or none at all) fails with NotFound;
\* it returns neither null nor a record.
C3_MissingIdIsNotFound ==
    (MetaDone /\ metaCall.fn = "getMetadata" /\ NoRecordOfKind(metaCall)) =>
        (~metaResult.ok /\ KindOf(metaResult.error) = "NotFound")

\* C3 witness: a movie is asked for, the identifier matches a series only, and the
\* lookup has failed.
C3_Witness ==
    /\ MetaDone
    /\ metaCall.fn = "getMetadata"
    /\ metaCall.params.type = "movie"
    /\ NoRecordOfKind(metaCall)
    /\ metaCall.env.find.status = 200
    /\ Len(metaCall.env.find.data.tv_results) = 1
    /\ ~metaResult.ok

\* a movie search whose catalog response carries at least one result
MovieSearchWithResults(call) ==
    /\ call.fn = "searchByTitle"
    /\ call.params.type = "movie"
    /\ ResultCount(call.env.search) >= 1

\* the secondary lookup of a candidate failed: a fetch was rejected, answered with a
\* non-2xx status, or its body cannot be decoded
EnrichmentFailed(e) ==
    \/ e.details.rejected \/ e.credits.rejected
    \/ ~ResponseOk(e.details) \/ ~ResponseOk(e.credits)
    \/ ~e.details.decodable \/ ~e.credits.decodable

\* C10: in a movie title search, whatever makes the secondary lookup of a candidate
\* fail, searchByTitle succeeds and returns that candidate with empty cast and empty
\* origin country.
C10_EnrichmentFailureNeverFailsSearch ==
    (MetaDone /\ MovieSearchWithResults(metaCall)) =>
        /\ metaResult.ok
        /\ Len(metaResult.value) = ResultCount(metaCall.env.search)
        /\ \A i \in 1..ResultCount(metaCall.env.search) :
              EnrichmentFailed(metaCall.env.movies[i]) =>
                  /\ metaResult.value[i].cast = <<>>
                  /\ metaResult.value[i].originCountry = ""

\* a secondary lookup of the candidate answered with a non-2xx status
AnsweredNotOk(e) ==
    \/ ~e.details.rejected /\ ~ResponseOk(e.details)
    \/ ~e.credits.rejected /\ ~ResponseOk(e.credits)

\* C11: in a movie title search, a candidate one of whose two secondary lookups
\* answers with a non-2xx status is returned with empty cast and empty origin
\* country; the result has one entry per catalog result, in catalog order.
C11_NotOkLookupYieldsBareCandidate ==
    (MetaDone /\ MovieSearchWithResults(metaCall)
       /\ \E i \in 1..ResultCount(metaCall.env.search) : AnsweredNotOk(metaCall.env.movies[i]))
        => /\ metaResult.ok
           /\ Len(metaResult.value) = ResultCount(metaCall.env.search)
           /\ \A i \in 1..ResultCount(metaCall.env.search) :
                 /\ metaResult.value[i].tmdbId = metaCall.env.search.data.results[i].id
                 /\ AnsweredNotOk(metaCall.env.movies[i])
                       => /\ metaResult.value[i].cast = <<>>
                          /\ metaResult.value[i].originCountry = ""

\* the call ended by raising a classified error
RaisedClassified(r) == r # Null /\ ~r.ok /\ r.error.isApiError

HasErrorEntry(trace) ==
    \E i \in 1..Len(trace) : trace[i].ev = "log" /\ trace[i].level = "ERROR"

\* C13: whenever the resolver or the synthesizer raises a classified error, an
\* ERROR entry has been written to the logging sink before the error is raised.
C13_ClassifiedErrorIsLoggedBeforeRaised ==
    /\ RaisedClassified(metaResult) => HasErrorEntry(metaResult.trace)
    /\ RaisedClassified(genResult) => HasErrorEntry(genResult.trace)

\* the response of the first fetch of a call, which handleApiResponse handles
FirstResponse(call) ==
    CASE call.fn = "getMetadata"      -> call.env.find
      [] call.fn = "searchByTitle"    -> call.env.search
      [] call.fn = "getSeriesDetails" -> call.env.series

\* the error of the taxonomy for a non-2xx status
ErrorOfStatus(status) ==
    CASE status = 401 -> InvalidApiKeyError("TMDB")
      [] status = 404 -> NotFoundError("TMDB could not find the requested resource.")
      [] status = 429 -> RateLimitError("TMDB")
      [] OTHER -> ApiError("An unexpected error occurred with TMDB (Status: "
                           \o ToStr(status) \o ").")

KindOfStatus(status) ==
    CASE status = 401 -> "InvalidCredential"
      [] status = 404 -> "NotFound"
      [] status = 429 -> "RateLimited"
      [] OTHER -> "Generic"

\* the fetches of an episode made in a trace
EpisodeFetches(trace) ==
    {i \in 1..Len(trace) : /\ trace[i].ev = "call" /\ trace[i].level = "fetch"
                           /\ StartsWith(trace[i].text, "/tv/")}

\* the call of getMetadata reached its episode lookup
EpisodeLookedUp ==
    /\ metaCall.fn = "getMetadata"
    /\ EpisodeFetches(metaResult.trace) # {}

\* C14: a catalog response with a 2xx status yields its decoded body (the record
\* or the seasons returned are those of the body); a response with status 401
\* raises InvalidCredential, 404 NotFound, 429 RateLimited and any other non-2xx
\* status Generic, one kind per failed response.
C14_ResponseIsDecodedOrClassifiedByStatus ==
    MetaDone =>
        LET first == FirstResponse(metaCall) IN
        /\ (~first.rejected /\ ~ResponseOk(first))
              => /\ ~metaResult.ok
                 /\ metaResult.error = ErrorOfStatus(first.status)
                 /\ KindOf(metaResult.error) = KindOfStatus(first.status)
        /\ (~first.rejected /\ ResponseOk(first) /\ first.decodable)
              => /\ (metaCall.fn = "getSeriesDetails" /\ HasProp(first.data, "seasons"))
                       => /\ metaResult.ok
                          /\ metaResult.value.seasons = FilterSeasons(first.data.seasons)
                 /\ (/\ metaCall.fn = "getMetadata" /\ metaCall.params.type = "movie"
                     /\ HasProp(first.data, "movie_results")
                     /\ Len(first.data.movie_results) > 0)
                       => /\ metaResult.ok
                          /\ metaResult.value.title = first.data.movie_results[1].title
                          /\ metaResult.value.overview = first.data.movie_results[1].overview
        /\ (EpisodeLookedUp /\ ~metaCall.env.episode.rejected)
              => IF ResponseOk(metaCall.env.episode)
                 THEN metaCall.env.episode.decodable
                         => /\ metaResult.ok
                            /\ metaResult.value.overview = metaCall.env.episode.data.overview
                 ELSE /\ ~metaResult.ok
                      /\ metaResult.error = ErrorOfStatus(metaCall.env.episode.status)

\* C14 witness: an identifier lookup answered 403 has raised a plain ApiError
C14_Witness ==
    /\ MetaDone
    /\ metaCall.fn = "getMetadata"
    /\ ~metaCall.env.find.rejected
    /\ metaCall.env.find.status = 403
    /\ ~metaResult.ok
    /\ metaResult.error.name = "ApiError"
    /\ KindOf(metaResult.error) = "Generic"

\* getMetadata was called for a series whose identifier lookup found a series
SeriesLookupMatched ==
    /\ MetaDone
    /\ metaCall.fn = "getMetadata"
    /\ metaCall.params.type = "series"
    /\ LET f == metaCall.env.find IN
       /\ ~f.rejected /\ ResponseOk(f) /\ f.decodable
       /\ HasProp(f.data, "tv_results")
       /\ Len(f.data.tv_results) > 0

MatchedSeries == metaCall.env.find.data.tv_results[1]

\* C18: for a series whose identifier matches, with season and episode both
\* unset, getMetadata does not fail, makes no episode lookup and returns the
\* series-level record: title, year and overview of the series and none of the
\* fields season, episode, episodeTitle.
C18_UnsetEpisodeYieldsSeriesRecord ==
    (/\ SeriesLookupMatched
     /\ metaCall.params.season = Null
     /\ metaCall.params.episode = Null)
        => /\ metaResult.ok
           /\ EpisodeFetches(metaResult.trace) = {}
           /\ metaResult.value.type = "series"
           /\ metaResult.value.title = MatchedSeries.name
           /\ metaResult.value.year = YearOf(MatchedSeries.first_air_date)
           /\ metaResult.value.overview = MatchedSeries.overview
           /\ DOMAIN metaResult.value \cap {"season", "episode", "episodeTitle"} = {}

\* C18 witness: the series of 2005 returned without an episode lookup
C18_Witness ==
    /\ SeriesLookupMatched
    /\ metaCall.params.season = Null
    /\ metaCall.params.episode = Null
    /\ metaResult.ok
    /\ metaResult.value.title = "S1"
    /\ metaResult.value.year = 2005
    /\ metaResult.value.overview = "series overview"

\* C19: for a series whose identifier matches, whenever the request supplies
\* both a season and an episode, getMetadata makes the episode lookup, and when
\* that lookup answers it returns a record with that season, that episode and
\* the title and overview of the episode.
C19_SuppliedEpisodeIsLookedUp ==
    (/\ SeriesLookupMatched
     /\ metaCall.params.season # Null
     /\ metaCall.params.episode # Null)
        => /\ EpisodeFetches(metaResult.trace) # {}
           /\ (LET ep == metaCall.env.episode IN
               ~ep.rejected /\ ResponseOk(ep) /\ ep.decodable)
                 => /\ metaResult.ok
                    /\ {"season", "episode", "episodeTitle", "overview"}
                          \subseteq DOMAIN metaResult.value
                    /\ metaResult.value.season = metaCall.params.season.v
                    /\ metaResult.value.episode = metaCall.params.episode.v
                    /\ metaResult.value.episodeTitle = metaCall.env.episode.data.name
                    /\ metaResult.value.overview = metaCall.env.episode.data.overview


(***************************************************************************)
(* Claims about StremioHandler, under SpecStremio.                         *)
(***************************************************************************)
\* s is one or more decimal digits
IsDigits(s) == Len(s) > 0 /\ \A i \in 1..Len(s) : Ch(s, i) \in Digits

\* s is an id, or an id with a season and an episode: tt<d>, tt<d>:<d>:<d>
IsStreamId(s) ==
    /\ StartsWith(s, "tt")
    /\ LET rest == SubSeq(s, 3, Len(s)) IN
       \/ IsDigits(rest)
       \/ \E a, b \in 1..Len(rest) :
            /\ a < b
            /\ Ch(rest, a) = ":" /\ Ch(rest, b) = ":"
            /\ IsDigits(SubSeq(rest, 1, a - 1))
            /\ IsDigits(SubSeq(rest, a + 1, b - 1))
            /\ IsDigits(SubSeq(rest, b + 1, Len(rest)))

\* s is /stream/<movie|series>/<id>.json
IsStreamShape(s) ==
    \E kind \in {"movie", "series"} :
        LET pre == "/stream/" \o kind \o "/" IN
        /\ StartsWith(s, pre)
        /\ Len(s) >= Len(pre) + 5
        /\ SubSeq(s, Len(s) - 4, Len(s)) = ".json"
        /\ IsStreamId(SubSeq(s, Len(pre) + 1, Len(s) - 5))

\* some part of s has that shape
ContainsStreamShape(s) ==
    \E i, j \in 1..Len(s) : i <= j /\ IsStreamShape(SubSeq(s, i, j))

\* all three keys hold more than white space
KeysConfigured == \A k \in {"tmdb", "tvdb", "gemini"} : Trim(keys[k]) # ""

InvalidFormatStream ==
    [streams |-> <<[name |-> "Error", title |-> "Invalid request format.",
                    behaviorHints |-> [notPlayable |-> TRUE]]>>]

KeysMissingStream ==
    [streams |-> <<[name |-> "Error",
                    title |-> "API keys not configured. Please configure the addon.",
                    behaviorHints |-> [notPlayable |-> TRUE]]>>]

\* C4, as stated: whenever a response is produced for a path that starts with
\* /stream/ and is not of the shape /stream/<movie|series>/<id>.json, the
\* response is the single non-playable "Invalid request format." entry and no
\* fault escapes the handler.
C4_MalformedPathIsInvalidFormat ==
    (response # Null /\ StartsWith(pathname, "/stream/") /\ ~IsStreamShape(pathname))
        => (response = InvalidFormatStream /\ ~stFault)

\* C4, amended: once the keys are loaded, a path that starts with /stream/ gets
\* the "API keys not configured" entry when the three keys are not all
\* configured, whatever its shape; with the keys configured it gets the
\* "Invalid request format." entry exactly when no part of it has the shape
\* (the pattern is searched anywhere in the path); no fault escapes the handler.
C4_InvalidFormatWhenNoPartHasTheShape ==
    (stPc \notin {"mount", "ready"} /\ StartsWith(pathname, "/stream/"))
        => /\ ~stFault
           /\ ~KeysConfigured => response = KeysMissingStream
           /\ (KeysConfigured /\ ~ContainsStreamShape(pathname))
                  => response = InvalidFormatStream
           /\ (KeysConfigured /\ ContainsStreamShape(pathname))
                  => response # InvalidFormatStream

\* C4 witness: keys configured, a malformed path answered as an invalid request
C4_Witness ==
    /\ stPc = "done"
    /\ KeysConfigured
    /\ pathname = "/stream/series/tt1:2.json"
    /\ response = InvalidFormatStream

HexDigits == {"0", "1", "2", "3", "4", "5", "6", "7", "8", "9", "a", "b", "c", "d", "e", "f"}

SucceededStream ==
    /\ response # Null
    /\ stRun # Null
    /\ "infoHash" \in DOMAIN response.streams[1]

\* C5: on success the infoHash is the 32-bit rolling hash (multiplier 31) of
\* the id followed by season and episode when present, written in base 16,
\* left-padded with zeros and cut to 40 characters: 40 hexadecimal characters.
C5_InfoHashIsFortyHexChars ==
    SucceededStream
        => LET h == response.streams[1].infoHash IN
           /\ h = InfoHash(stRun.imdbId, stRun.season, stRun.episode)
           /\ Len(h) = 40
           /\ \A i \in 1..Len(h) : Ch(h, i) \in HexDigits

FailedStream ==
    /\ response # Null
    /\ stRun # Null
    /\ "infoHash" \notin DOMAIN response.streams[1]

IsSingleNotPlayable(r) ==
    /\ Len(r.streams) = 1
    /\ r.streams[1].behaviorHints.notPlayable

\* C6, as stated: when a well-formed request fails, the response is one
\* non-playable entry whose title is the message of the error raised.
C6_FailureTitleIsTheRaisedMessage ==
    (FailedStream /\ stRun.caught # Null)
        => /\ IsSingleNotPlayable(response)
           /\ response.streams[1].title = stRun.caught.v.message

\* C6, amended: when a well-formed request fails, the response is one
\* non-playable entry; its title is the message of the error raised when that
\* error is one of the application's classified errors, "An unknown error
\* occurred." when it is any other error, and "Could not generate review for
\* this item." when the synthesizer returned an empty list.
C6_FailureTitleByKindOfFailure ==
    FailedStream
        => /\ IsSingleNotPlayable(response)
           /\ (stRun.caught # Null /\ stRun.caught.v.isApiError)
                  => response.streams[1].title = stRun.caught.v.message
           /\ (stRun.caught # Null /\ ~stRun.caught.v.isApiError)
                  => response.streams[1].title = "An unknown error occurred."
           /\ (stRun.caught = Null)
                  => /\ stRun.reviewPoints = Some(<<>>)
                     /\ response.streams[1].title = "Could not generate review for this item."

\* C6 witness: a fetch rejected with a TypeError, answered as an unknown error
C6_Witness ==
    /\ FailedStream
    /\ stRun.caught # Null
    /\ stRun.caught.v.name = "TypeError"
    /\ response.streams[1].title = "An unknown error occurred."

RECURSIVE IsJoinOf(_, _)
\* t is the lines, each followed by a newline except the last
IsJoinOf(t, lines) ==
    IF Len(lines) = 0 THEN t = ""
    ELSE IF Len(lines) = 1 THEN t = lines[1].s
    ELSE /\ StartsWith(t, lines[1].s \o "\n")
         /\ IsJoinOf(SubSeq(t, Len(lines[1].s) + 2, Len(t)), Tail(lines))

\* number of newline-separated lines of t
LineCount(t) == 1 + Cardinality({i \in 1..Len(t) : Ch(t, i) = "\n"})

HasCall(trace, service, fn) == \E i \in 1..Len(trace) : trace[i] = CallEv(service, fn)

\* handleSubmit is searching, or has searched, by title and the search has
\* returned its candidates
TitleSearchReturned ==
    /\ tgFlow # Null
    /\ tgFlow.handler = "handleSubmit"
    /\ ~tgFlow.byId
    /\ tgFlow.results # Null

TitleSearchDone == TitleSearchReturned /\ tgFlow.pc = "done"

\* C8, as stated: a title search that returned exactly one candidate selects
\* it and goes on to review generation with no further input: when the
\* handler is done the candidate was selected, generateReview was invoked
\* and no candidate list is offered.
C8_SingleCandidateAdvancesToReview ==
    (TitleSearchDone /\ Len(tgFlow.results.v) = 1)
        => /\ tgFlow.selected
           /\ tgFlow.metadata = Some(tgFlow.results.v[1])
           /\ searchResults = Null
           /\ HasCall(tgTrace, "gemini", "generateReview")

\* C8, amended: a title search that returned exactly one candidate selects it
\* without offering a list.  For a movie the same handler goes on to review
\* generation and ends with a review or an error.  For a series it fetches the
\* seasons of the candidate instead and ends, without invoking generateReview,
\* with an error or with the season and episode selection of that series
\* (nothing selected yet): the review of a series waits for that input.
C8_SingleCandidateIsAutoSelected ==
    (TitleSearchReturned /\ Len(tgFlow.results.v) = 1)
        => /\ searchResults = Null
           /\ tgFlow.selected
           /\ tgFlow.metadata = Some(tgFlow.results.v[1])
           /\ tgFlow.type = "movie"
                  => /\ HasCall(tgTrace, "gemini", "generateReview")
                     /\ tgFlow.pc = "done" => TgContent \in {"review", "error"}
           /\ tgFlow.type = "series"
                  => /\ ~HasCall(tgTrace, "gemini", "generateReview")
                     /\ HasCall(tgTrace, "metadata", "getSeriesDetails")
                     /\ review = Null
                     /\ tgFlow.pc = "done"
                            => \/ TgContent = "error"
                               \/ /\ TgContent = "series"
                                  /\ selectedSeries.v.tmdbId = tgFlow.results.v[1].tmdbId
                                  /\ selectedSeries.v.title = tgFlow.results.v[1].title
                                  /\ selectedSeason = ""
                                  /\ selectedEpisode = ""

\* C8 witness: the only series found is selected and its seasons are offered
C8_Witness ==
    /\ TitleSearchDone
    /\ Len(tgFlow.results.v) = 1
    /\ tgFlow.type = "series"
    /\ TgContent = "series"
    /\ Len(selectedSeries.v.seasons) = 2

\* C9: after a title search that returned N > 1 candidates the list offered
\* is those N candidates, in the order of the catalog's answer, and as long
\* as a list is offered generateReview has not been invoked since the search.
C9_ManyCandidatesAreOfferedInOrder ==
    /\ (TitleSearchDone /\ Len(tgFlow.results.v) > 1)
           => /\ TgContent = "results"
              /\ Len(searchResults.v) = ResultCount(tgFlow.found.v)
              /\ \A i \in 1..Len(searchResults.v) :
                    /\ searchResults.v[i].tmdbId = tgFlow.found.v.data.results[i].id
                    /\ searchResults.v[i].type = tgFlow.type
    /\ searchResults # Null
           => /\ Len(searchResults.v) > 1
              /\ ~HasCall(tgTrace, "gemini", "generateReview")

\* C9 witness: two movies found and offered
C9_Witness ==
    /\ TitleSearchDone
    /\ tgFlow.type = "movie"
    /\ TgContent = "results"
    /\ Len(searchResults.v) = 2
    /\ searchResults.v[2].tmdbId = 2

\* a step in which performReviewGeneration calls generateReview
ReviewRequested ==
    /\ tgFlow' # Null
    /\ tgFlow'.pc = "awaitReview"
    /\ (tgFlow = Null \/ tgFlow.pc # "awaitReview")

\* a record of an episode: season and episode are set
IsEpisodeRecord(m) == {"season", "episode"} \subseteq DOMAIN m

\* a flow that selected a series: handleSubmit by identifier or with a single
\* candidate, or handleSelectResult on a candidate of the list
SeriesSelected(flow) ==
    /\ flow # Null
    /\ flow.handler \in {"handleSubmit", "handleSelectResult"}
    /\ flow.metadata # Null
    /\ flow.metadata.v.type = "series"

\* C25: in interactive mode generateReview is called for a series only by
\* handleEpisodeReview, with a season and an episode selected, and with the
\* record of that season and episode that getMetadata returned after its
\* episode lookup; a flow that selects a series never calls generateReview.
C25_SeriesReviewOnlyForASelectedEpisode ==
    [][/\ (ReviewRequested /\ tgFlow'.metadata.v.type = "series") =>
            /\ tgFlow # Null
            /\ tgFlow.handler = "handleEpisodeReview"
            /\ tgFlow.pc = "awaitEpisode"
            /\ selectedSeries # Null /\ selectedSeason # "" /\ selectedEpisode # ""
            /\ IsEpisodeRecord(tgFlow'.metadata.v)
            /\ tgFlow'.metadata.v.season = ParseInt(selectedSeason)
            /\ tgFlow'.metadata.v.episode = ParseInt(selectedEpisode)
            /\ EpisodeFetches(tgTrace') # {}
       /\ SeriesSelected(tgFlow') =>
            /\ tgFlow'.pc # "awaitReview"
            /\ ~HasCall(tgTrace', "gemini", "generateReview")
      ]_vars

\* handleEpisodeReview has called generateReview for the selected episode
C25_Witness ==
    /\ tgFlow # Null
    /\ tgFlow.handler = "handleEpisodeReview"
    /\ tgFlow.pc = "awaitReview"
    /\ tgFlow.metadata.v.type = "series"
    /\ IsEpisodeRecord(tgFlow.metadata.v)
    /\ HasCall(tgTrace, "gemini", "generateReview")
    /\ selectedSeries # Null

\* C26: in every state of the component, whatever was submitted, selected,
\* reviewed or gone back from: the review and the error message are not both
\* set, and when the candidate list is set, the review, the error message and
\* the selected series are all unset.
C26_ReviewErrorAndListExcludeEachOther ==
    /\ ~(review # Null /\ error # Null)
    /\ searchResults # Null =>
         /\ review = Null
         /\ error = Null
         /\ selectedSeries = Null

\* the candidate list of a title search is shown
C26_Witness ==
    /\ tgFlow # Null
    /\ tgFlow.handler = "handleSubmit"
    /\ tgFlow.pc = "done"
    /\ searchResults # Null
    /\ Len(searchResults.v) = 2
    /\ review = Null /\ error = Null /\ selectedSeries = Null
    /\ TgContent = "results"

TgAwaits == {"awaitMetadata", "awaitSearch", "awaitSeries", "awaitReview", "awaitEpisode"}

\* a handler is waiting for an external call
FlowInFlight == tgFlow # Null /\ tgFlow.pc \in TgAwaits

\* a is an initial segment of b
IsPrefix(a, b) == Len(a) <= Len(b) /\ SubSeq(b, 1, Len(a)) = a

\* the step is the next step of the flow in flight: the same handler goes on
\* and its trace is extended
FlowContinues ==
    /\ tgFlow' # Null
    /\ tgFlow'.handler = tgFlow.handler
    /\ tgFlow'.pc \in TgAwaits \cup {"done"}
    /\ IsPrefix(tgTrace, tgTrace')
    /\ Len(tgTrace') > Len(tgTrace)

\* C27: the loading flag is set exactly while a flow is in flight, and while
\* it is set no handler starts: a step then either leaves the flow alone (an
\* edit of the form) or is the next step of that same flow, so that the calls
\* of a trace are those of one flow.
C27_OneFlowInFlight ==
    [][/\ isLoading' <=> FlowInFlight'
       /\ (isLoading /\ tgFlow' # tgFlow) => FlowContinues
       /\ (isLoading /\ tgFlow' = tgFlow) =>
            UNCHANGED <<isLoading, error, review, searchResults, selectedSeries,
                        selectedSeason, selectedEpisode, tgTrace>>
      ]_vars

\* a series is selected and the lookup of its episode is in flight, with the
\* query of the form still submittable
C27_Witness ==
    /\ isLoading
    /\ FlowInFlight
    /\ tgFlow.handler = "handleEpisodeReview"
    /\ selectedSeries # Null
    /\ Trim(query) # ""

\* the step in which the await of getSeriesDetails returns and the series is set
SeriesIsSet ==
    /\ tgFlow # Null
    /\ tgFlow.pc = "awaitSeries"
    /\ selectedSeries' # Null

\* the step in which the getMetadata of handleEpisodeReview settles
EpisodeResolved ==
    /\ tgFlow # Null
    /\ tgFlow.pc = "awaitEpisode"
    /\ tgFlow' # tgFlow

\* C29: the series that is set carries the identifier that getSeriesDetails
\* returned for it (none when it returned none), whatever identifier the
\* selected record carried, and the lookup of handleEpisodeReview is made for
\* that identifier, or for the empty string when there is none.
C29_EpisodeIsResolvedByTheDetailsIdentifier ==
    [][/\ SeriesIsSet =>
            \E so \in SeriesOutcomes :
                LET details == getSeriesDetails(tgFlow.metadata.v.tmdbId, [series |-> so]) IN
                /\ details.ok
                /\ tgTrace' = tgTrace \o details.trace
                /\ selectedSeries'.v.seasons = details.value.seasons
                /\ selectedSeries'.v.imdbId = details.value.imdbId
       /\ EpisodeResolved =>
            /\ selectedSeries # Null
            /\ tgFlow.query = (IF selectedSeries.v.imdbId = Null THEN ""
                               ELSE selectedSeries.v.imdbId.v)
            /\ HasCall(tgTrace', "fetch", "/find/" \o tgFlow.query)
      ]_vars

\* the series was found by its identifier, its details carried none, and the
\* episode is looked up with the empty string
C29_Witness ==
    /\ tgFlow # Null
    /\ tgFlow.handler = "handleEpisodeReview"
    /\ tgFlow.pc = "done"
    /\ tgFlow.query = ""
    /\ HasCall(tgTrace, "fetch", "/find/")
    /\ selectedSeries # Null
    /\ selectedSeries.v.imdbId = Null
    /\ query = "tt0133093"
    /\ type = "series"

\* the step of the "Back to Search" button
WentBack == tgFlow' # Null /\ tgFlow'.handler = "backToSearch" /\ tgFlow' # tgFlow

\* a step in which handleSelectResult starts, called by the click on a candidate
\* or by handleSubmit
SelectionStarts ==
    /\ tgFlow' # Null
    /\ tgFlow'.handler \in {"handleSubmit", "handleSelectResult"}
    /\ tgFlow'.selected
    /\ (tgFlow = Null \/ tgFlow.handler \notin {"handleSubmit", "handleSelectResult"}
        \/ ~tgFlow.selected)

EntryPoints == {"handleSubmit", "handleSelectResult", "handleEpisodeReview"}

\* an entry point of the interactive mode has run to its end
EntryPointDone ==
    /\ tgFlow # Null
    /\ tgFlow.handler \in EntryPoints
    /\ tgFlow.pc = "done"

\* C12, as stated: no fault escapes an entry point, and each entry point ends
\* by reporting a review or an error message.
C12_EntryPointsEndWithReviewOrError ==
    /\ ~tgFault
    /\ ~stFault
    /\ EntryPointDone => (review # Null \/ error # Null)
    /\ stPc = "done" => response # Null

\* C12, amended: no fault escapes an entry point.  An entry point of the
\* interactive mode ends, no longer loading, with a review, with an error
\* message, or asking for the input it still needs: the candidate list (only
\* handleSubmit, after a search with several candidates) or the season and
\* episode selection of a series.  handleRequest, run with the credentials
\* loaded, ends with a response of exactly one non-playable entry, the review
\* or an error message.
C12_NoFaultEscapesAnEntryPoint ==
    /\ ~tgFault
    /\ ~stFault
    /\ EntryPointDone
           => /\ ~isLoading
              /\ TgContent \in {"review", "error", "results", "series"}
              /\ TgContent = "results"
                    => (tgFlow.handler = "handleSubmit" /\ Len(tgFlow.results.v) > 1)
              /\ TgContent = "series" => tgFlow.metadata.v.type = "series"
    /\ stPc = "done" => (response # Null /\ IsSingleNotPlayable(response))

\* C12 witness: a rejected network call in handleEpisodeReview, reported as the
\* error message
C12_Witness ==
    /\ EntryPointDone
    /\ tgFlow.handler = "handleEpisodeReview"
    /\ error = Some("Failed to fetch")
    /\ ~tgFault

\* App.tsx: the path selects protocol mode
ProtocolMode == StartsWith(pathname, "/stream/")

\* a call to a function of metadataService or geminiService
IsServiceCall(e) == e.ev = "call" /\ e.level \in {"metadata", "gemini"}

\* the service functions called in a trace, in order
ServiceCalls(trace) ==
    LET calls == SelectSeq(trace, IsServiceCall) IN
    [i \in 1..Len(calls) |-> calls[i].text]

\* C20: in protocol mode searchByTitle and getSeriesDetails are never invoked and
\* no candidate-selection state is entered: a valid path is resolved by one call
\* of getMetadata, and when that call succeeds generateReview is invoked next.
C20_ProtocolModeResolvesByIdentifierOnly ==
    ProtocolMode =>
        /\ ~HasCall(stTrace, "metadata", "searchByTitle")
        /\ ~HasCall(stTrace, "metadata", "getSeriesDetails")
        /\ ServiceCalls(tgTrace) = <<>>
        /\ tgFlow = Null /\ searchResults = Null /\ selectedSeries = Null
        /\ ServiceCalls(stTrace) \in {<<>>, <<"getMetadata">>,
                                      <<"getMetadata", "generateReview">>}
        /\ stRun # Null => ServiceCalls(stTrace)[1] = "getMetadata"
        /\ (stRun # Null /\ stRun.metadata # Null)
              => ServiceCalls(stTrace) = <<"getMetadata", "generateReview">>
        /\ (stRun # Null /\ stRun.metadata = Null)
              => ServiceCalls(stTrace) = <<"getMetadata">>
        /\ stRun = Null => ServiceCalls(stTrace) = <<>>

\* C20 witness: a series path answered with a review after the two calls
C20_Witness ==
    /\ ProtocolMode
    /\ stPc = "done"
    /\ stRun # Null
    /\ stRun.type = "series"
    /\ stRun.reviewPoints # Null
    /\ ServiceCalls(stTrace) = <<"getMetadata", "generateReview">>
    /\ SucceededStream

\* a log entry written when a call fails: by handleApiResponse, by generateReview
\* (safety block, invalid output, catch) or by the catch of an entry point
IsFailureEntry(e) ==
    /\ e.ev = "log"
    /\ e.level = "ERROR"
    /\ e.text \in {"API Error from TMDB",
                   "Gemini response blocked for safety reasons for",
                   "Invalid JSON or structure received from Gemini:",
                   "Error generating review with Gemini for",
                   "TestGround Error:",
                   "Error processing stream request for"}

\* no call, to a service or to the network, follows a failure entry
NoCallAfterFailure(trace) ==
    \A i \in 1..Len(trace) :
        IsFailureEntry(trace[i]) => \A j \in (i + 1)..Len(trace) : trace[j].ev # "call"

\* the model is invoked at most once
ModelInvokedAtMostOnce(trace) ==
    Cardinality({i \in 1..Len(trace) : trace[i] = CallEv("Gemini", "generateContent")}) <= 1

\* no service function is called twice
NoServiceCalledTwice(trace) ==
    \A i, j \in 1..Len(ServiceCalls(trace)) :
        ServiceCalls(trace)[i] = ServiceCalls(trace)[j] => i = j

\* C21: within one flow (the trace of one interactive handler run or of one
\* protocol request) no call follows a failed call: nothing is retried, the model
\* is invoked at most once, and generateReview is not invoked after a failed
\* resolution.
C21_FlowStopsAtTheFirstFailure ==
    /\ NoCallAfterFailure(tgTrace) /\ NoCallAfterFailure(stTrace)
    /\ ModelInvokedAtMostOnce(tgTrace) /\ ModelInvokedAtMostOnce(stTrace)
    /\ NoServiceCalledTwice(tgTrace) /\ NoServiceCalledTwice(stTrace)
    /\ (stPc = "done" /\ stRun # Null /\ stRun.metadata = Null)
          => ~HasCall(stTrace, "gemini", "generateReview")
    /\ (EntryPointDone /\ tgFlow.metadata = Null)
          => ~HasCall(tgTrace, "gemini", "generateReview")

\* C21 witness: a rate-limited identifier lookup ended the submit; no review asked
C21_Witness ==
    /\ EntryPointDone
    /\ tgFlow.handler = "handleSubmit"
    /\ error = Some(RateLimitError("TMDB").message)
    /\ ServiceCalls(tgTrace) = <<"getMetadata">>
    /\ \E i \in 1..Len(tgTrace) : tgTrace[i] = LogEv("ERROR", "API Error from TMDB")

\* C23: if every awaited call settles, an interactive flow that has set the
\* loading flag clears it and shows a review, an error, the candidate list or the
\* season and episode selection of a series; and a request on a /stream/ path
\* gets its response.
C23_FlowsEnd ==
    /\ isLoading ~> (~isLoading /\ TgContent \in {"review", "error", "results", "series"})
    /\ ProtocolMode ~> (response # Null)

\* C23 witness: an episode review has run to its end and the review is shown
C23_Witness ==
    /\ EntryPointDone
    /\ tgFlow.handler = "handleEpisodeReview"
    /\ ~isLoading
    /\ TgContent = "review"


(***************************************************************************)
(* Claims about ConfigurePage, under SpecConfig.                           *)
(***************************************************************************)
\* the file parses to an object whose tmdb, tvdb and gemini are strings
HasThreeStrings(file) ==
    /\ file.parsable
    /\ file.value.t = "obj"
    /\ \A f \in KeyFields :
          f \in DOMAIN file.value.props /\ file.value.props[f].t = "str"

FormatErrors ==
    {Some("Invalid key file format."),
     Some("Could not read the key file. Please ensure it is a valid JSON file.")}

\* C22: an imported file is accepted exactly when it parses to an object whose
\* tmdb, tvdb and gemini are strings.  Accepted, the three form fields take the
\* imported values and the test results are cleared; rejected, a format error is
\* reported and the form fields, the test results and the stored credentials
\* stay as they were.
C22_ImportAcceptsExactlyThreeStrings ==
    [][\A file \in KeyFiles :
          ImportOf(file) =>
              IF HasThreeStrings(file)
              THEN /\ FormFields' = [f \in KeyFields |-> file.value.props[f].s]
                   /\ testResults' = NoResults
                   /\ UNCHANGED <<alerted, storedKeys, keys>>
              ELSE /\ alerted' \in FormatErrors
                   /\ UNCHANGED <<tmdbKey, tvdbKey, geminiKey, testResults, storedKeys, keys>>
      ]_vars

\* C22 witness: after a test run had set its results, a file was imported: the
\* fields hold its values and no result is shown
C22_Witness ==
    /\ tmdbKey = "i1" /\ tvdbKey = "i1" /\ geminiKey = "i1"
    /\ testResults = NoResults
    /\ testedKeys.tmdb # Null
    /\ alerted = Null
    /\ ~isSavingAndTesting

(***************************************************************************)
(* Claims about the logging sink, under SpecLog.                           *)
(***************************************************************************)
\* the last n elements of a sequence, in order
LastOf(a, n) == SubSeq(a, Len(a) - n + 1, Len(a))

\* C24: after any sequence of info / debug / warn / error and clearLogs calls
\* the sink holds at most 200 entries, and they are the most recent entries
\* logged since the last clear, in the order they were logged: when more than
\* 200 were logged, the oldest are the ones missing.
C24_SinkKeepsTheMostRecent ==
    /\ Len(getLogs) <= 200
    /\ getLogs = LastOf(logged, Min(Len(logged), 200))

\* more than 200 entries were logged after a clear, so entries were dropped
C24_Witness ==
    /\ logCount > Len(logged)
    /\ Len(logged) > 200
    /\ Len(getLogs) = 200
    /\ getLogs[1].timestamp = logged[Len(logged) - 199].timestamp

\* C28, as stated: an indicator shown next to a field is the result of testing
\* the value that is in the field now (trimmed, as the tests take it).  Not
\* an invariant: the tests of a run are made on the values the fields had when
\* the run started, and the run sets all three indicators when it ends,
\* whatever was typed or imported meanwhile.
C28_IndicatorRefersToTheFieldValue ==
    \A f \in KeyFields :
        testResults[f] # "undefined" => testedKeys[f] = Some(Trim(FormFields[f]))

====
